---- MODULE Spec2Model ----
(***************************************************************************)
(* Model of the task sort engine of Obsidian-Task-Genius:                  *)
(*   getDynamicStatusOrder, compareTasks, sortTasks, sortTasksRecursively, *)
(*   parseTasksForSorting, findContinuousTaskBlocks, sortTasksInDocument   *)
(*   and the ForecastStore                                                 *)
(*   (src/src/components/task-view/forecastStore.ts),                      *)
(* of the window focus handler of the forecast view                        *)
(*   (src/src/components/task-view/forecast.ts),                           *)
(* and of its indexing worker: the metadata extractors,                    *)
(*   parseTasksFromContent, buildTaskHierarchy, processBatch and the       *)
(*   message handler (src/src/utils/workers/TaskIndex.worker.ts).          *)
(*                                                                         *)
(* Optional JavaScript values (a field that may be undefined) are          *)
(* sequences of length at most one: <<>> is undefined, <<v>> is v.         *)
(* A "|"-joined marker string is the sequence of its pieces, so that       *)
(* "x|X" is <<"x","X">> and the empty string is <<"">>.                   *)
(***************************************************************************)
EXTENDS Integers, Sequences, FiniteSets, TLC

VARIABLES
    pc,           \* position of the modelled call: what has run so far
    settings,     \* plugin settings read by the sort engine
    statusOrder,  \* rank table returned by getDynamicStatusOrder
    criteria,     \* SortCriterion[]: sequence of [field, order]
    taskA,        \* compareTasks arguments
    taskB,
    taskC,
    cmp,          \* results of compareTasks on the pairs of taskA, taskB, taskC
    lines,        \* the block handed to parseTasksForSorting, line by line
    today,        \* the current date at local midnight
    tasks,        \* the array handed to the sort: drawn, or the parsed forest
    sorted,       \* the array returned by the last sortTasks call
    sortedBefore, \* the array returned by the sortTasks call before the last
    blocks,       \* the blocks returned by findContinuousTaskBlocks
    content,      \* worker: the file content handed to parseTasksFromContent
    format,       \* worker: the preferred metadata format
    fileCache,    \* worker: whether the file cache carries the tag "#project"
    indexed,      \* worker: the Task[] returned by parseTasksFromContent
    inbox,        \* worker: command messages delivered and not yet handled
    handled,      \* worker: the messages the handler has taken, oldest first
    outbox,       \* worker: messages posted by the worker, oldest first
    workspace,    \* what sortTasksInDocument finds in the application; the
                  \* clock the forecast view reads
    outcome,      \* what the last sortTasksInDocument call or the last
                  \* operation on the ForecastStore has done
    store         \* forecast view: the fields of its ForecastStore

workerVars == <<blocks, content, format, fileCache, indexed, inbox, handled,
                outbox>>

appVars == <<workspace, outcome, store>>

vars == <<pc, settings, statusOrder, criteria, taskA, taskB, taskC, cmp,
          lines, today, tasks, sorted, sortedBefore, workerVars, appVars>>

\* the variables of the editor command and of the forecast view before any use
AppIdle ==
    /\ workspace = <<>>
    /\ outcome = <<>>
    /\ store = <<>>

\* the variables of the worker and of the block grouping before any use
WorkerIdle ==
    /\ blocks = <<>>
    /\ content = <<>>
    /\ format = "tasks"
    /\ fileCache = FALSE
    /\ indexed = <<>>
    /\ inbox = <<>>
    /\ handled = <<>>
    /\ outbox = <<>>

---------------------------------------------------------------------------
(* Bounds of the model *)

\* longest taskStatusCycle drawn
MaxCycle == 3
\* longest task array sorted
MaxTasks == 3
\* largest priority / timestamp value drawn (values 1..MaxVal)
MaxVal == 2
\* longest block parsed for the calculated status
MaxLines == 2

(* Program constants *)
CompletedRank == 98
CancelledRank == 99
DefaultIncompleteRank == 10
UnknownRank == 1000

---------------------------------------------------------------------------
(* JavaScript helpers *)

Undefined == <<>>
Some(v) == <<v>>
IsDefined(x) == x # <<>>
Val(x) == x[1]

\* const value = ...; body
With(value, Body(_)) == Body(value)

Includes(seq, x) == \E i \in DOMAIN seq : seq[i] = x

Sign(n) == IF n < 0 THEN -1 ELSE IF n > 0 THEN 1 ELSE 0

EmptyOrder == [k \in {} |-> 0]

\* string truthiness of a "|"-joined marker string
IsEmptyString(s) == s = <<"">>

\* taskStatuses[statusType]; taskStatuses is the ordered list of its entries
Lookup(entries, key) ==
    IF \E i \in DOMAIN entries : entries[i].type = key
    THEN Some((entries[CHOOSE i \in DOMAIN entries : entries[i].type = key]).marks)
    ELSE Undefined

---------------------------------------------------------------------------
(* getDynamicStatusOrder *)

Overdue == "overdue"
Cancelled == "-"

\* (settings.taskStatuses?.completed || "x|X").split("|")
CompletedMarkers(s) ==
    LET v == IF IsDefined(s.taskStatuses)
             THEN Lookup(Val(s.taskStatuses), "completed") ELSE Undefined
    IN  IF IsDefined(v) /\ ~IsEmptyString(Val(v)) THEN Val(v) ELSE <<"x", "X">>

\* (settings.taskStatuses?.abandoned || "-").split("|")
CancelledMarkers(s) ==
    LET v == IF IsDefined(s.taskStatuses)
             THEN Lookup(Val(s.taskStatuses), "abandoned") ELSE Undefined
    IN  IF IsDefined(v) /\ ~IsEmptyString(Val(v)) THEN Val(v) ELSE <<"-">>

\* marks[statusName]: undefined when the name has no mark
MarkOf(s, statusName) ==
    IF statusName \in DOMAIN s.taskStatusMarks
    THEN s.taskStatusMarks[statusName] ELSE ""

\* CycleStep without the completed bucket: a completed marker of the cycle is
\* ranked like any other
CycleStepNoCompletedBucket(s, st, statusName) ==
    LET mark == MarkOf(s, statusName)
    IN  IF mark # "" /\ ~Includes(s.excludeMarksFromCycle, statusName)
        THEN IF Includes(CancelledMarkers(s), mark)
             THEN [st EXCEPT !.cancelledInCycle = Append(@, mark)]
             ELSE IF mark \notin DOMAIN st.order
             THEN [st EXCEPT !.order = (mark :> st.currentOrder) @@ @,
                             !.currentOrder = @ + 1]
             ELSE st
        ELSE st

\* One iteration of the loop over the cycle. st = [order, currentOrder,
\* completedInCycle, cancelledInCycle]
CycleStep(s, st, statusName) ==
    LET mark == MarkOf(s, statusName)
    IN  IF mark # "" /\ ~Includes(s.excludeMarksFromCycle, statusName)
        THEN IF Includes(CompletedMarkers(s), mark)
             THEN [st EXCEPT !.completedInCycle = Append(@, mark)]
             ELSE IF Includes(CancelledMarkers(s), mark)
             THEN [st EXCEPT !.cancelledInCycle = Append(@, mark)]
             ELSE IF mark \notin DOMAIN st.order
             THEN [st EXCEPT !.order = (mark :> st.currentOrder) @@ @,
                             !.currentOrder = @ + 1]
             ELSE st
        ELSE st

RECURSIVE CycleWalk(_, _, _)
CycleWalk(s, st, i) ==
    IF i > Len(s.taskStatusCycle) THEN st
    ELSE CycleWalk(s, CycleStep(s, st, s.taskStatusCycle[i]), i + 1)

\* marks.forEach(mark => { if (!(mark in order)) order[mark] = rank })
RECURSIVE AssignBucket(_, _, _, _)
AssignBucket(order, marks, rank, i) ==
    IF i > Len(marks) THEN order
    ELSE AssignBucket(
            IF marks[i] \notin DOMAIN order
            THEN (marks[i] :> rank) @@ order ELSE order,
            marks, rank, i + 1)

\* FallbackMark without the test (mark in order): a rank already assigned is
\* overwritten
FallbackMarkOverwriting(s, st, mark) ==
    IF mark # ""
    THEN IF Includes(CompletedMarkers(s), mark)
         THEN [st EXCEPT !.order = (mark :> CompletedRank) @@ @]
         ELSE IF Includes(CancelledMarkers(s), mark)
         THEN [st EXCEPT !.order = (mark :> CancelledRank) @@ @]
         ELSE [st EXCEPT !.order = (mark :> st.currentOrder) @@ @,
                         !.currentOrder = @ + 1]
    ELSE st

\* the body of markers.forEach in the fallback loop
FallbackMark(s, st, mark) ==
    IF mark # "" /\ mark \notin DOMAIN st.order
    THEN IF Includes(CompletedMarkers(s), mark)
         THEN [st EXCEPT !.order = (mark :> CompletedRank) @@ @]
         ELSE IF Includes(CancelledMarkers(s), mark)
         THEN [st EXCEPT !.order = (mark :> CancelledRank) @@ @]
         ELSE [st EXCEPT !.order = (mark :> st.currentOrder) @@ @,
                         !.currentOrder = @ + 1]
    ELSE st

RECURSIVE FallbackMarkers(_, _, _, _)
FallbackMarkers(s, st, markers, j) ==
    IF j > Len(markers) THEN st
    ELSE FallbackMarkers(s, FallbackMark(s, st, markers[j]), markers, j + 1)

\* for (const statusType in settings.taskStatuses)
RECURSIVE FallbackWalk(_, _, _)
FallbackWalk(s, st, i) ==
    IF ~IsDefined(s.taskStatuses) \/ i > Len(Val(s.taskStatuses)) THEN st
    ELSE FallbackWalk(s,
            FallbackMarkers(s, st, Val(s.taskStatuses)[i].marks, 1), i + 1)

\* if (!(" " in order)) order[" "] = 10; if (!("x" in order)) order["x"] = 98
Defaults(order) ==
    LET o1 == IF " " \notin DOMAIN order
              THEN (" " :> DefaultIncompleteRank) @@ order ELSE order
    IN  IF "x" \notin DOMAIN o1 THEN ("x" :> CompletedRank) @@ o1 ELSE o1

\* the rank table after the cycle walk and the two buckets (lines 558-614)
OrderFromCycle(s) ==
    LET st0 == [order |-> (Overdue :> 1), currentOrder |-> 2,
                completedInCycle |-> <<>>, cancelledInCycle |-> <<>>]
        st1 == CycleWalk(s, st0, 1)
        o2  == AssignBucket(st1.order, st1.completedInCycle, CompletedRank, 1)
        o3  == AssignBucket(o2, st1.cancelledInCycle, CancelledRank, 1)
    IN  [st1 EXCEPT !.order = o3]

getDynamicStatusOrder(s) ==
    Defaults(FallbackWalk(s, OrderFromCycle(s), 1).order)

---------------------------------------------------------------------------
(* compareTasks *)

\* JavaScript truthiness of an optional string
TruthyString(x) == IsDefined(x) /\ Val(x) # ""
\* JavaScript truthiness of an optional boolean
TruthyBool(x) == IsDefined(x) /\ Val(x)

Digits == <<"0", "1", "2", "3", "4", "5", "6", "7", "8", "9">>
IsDigit(c) == Includes(Digits, c)
DigitVal(c) == (CHOOSE i \in DOMAIN Digits : Digits[i] = c) - 1

\* primary ("base") weight of a letter: case is ignored
BaseWeight(c) ==
    CASE c \in {"a", "A"} -> 1
      [] c \in {"b", "B"} -> 2
      [] c \in {"c", "C"} -> 3
      [] OTHER -> 4

\* length of the run of digits at the head of s
RECURSIVE DigitRun(_)
DigitRun(s) ==
    IF s = <<>> \/ ~IsDigit(Head(s)) THEN 0 ELSE 1 + DigitRun(Tail(s))

RECURSIVE NumberOf(_, _)
NumberOf(s, acc) ==
    IF s = <<>> THEN acc ELSE NumberOf(Tail(s), 10 * acc + DigitVal(Head(s)))

\* new Intl.Collator(undefined, {usage: "sort", sensitivity: "base",
\* numeric: true}).compare(s, t) on strings given as sequences of characters
RECURSIVE CollatorCompare(_, _)
CollatorCompare(s, t) ==
    IF s = <<>> /\ t = <<>> THEN 0
    ELSE IF s = <<>> THEN -1
    ELSE IF t = <<>> THEN 1
    ELSE IF IsDigit(Head(s)) /\ IsDigit(Head(t))
    THEN LET ks == DigitRun(s)
             kt == DigitRun(t)
             ns == NumberOf(SubSeq(s, 1, ks), 0)
             nt == NumberOf(SubSeq(t, 1, kt), 0)
         IN  IF ns # nt THEN Sign(ns - nt)
             ELSE CollatorCompare(SubSeq(s, ks + 1, Len(s)),
                                  SubSeq(t, kt + 1, Len(t)))
    ELSE IF IsDigit(Head(s)) THEN -1
    ELSE IF IsDigit(Head(t)) THEN 1
    ELSE IF BaseWeight(Head(s)) # BaseWeight(Head(t))
    THEN Sign(BaseWeight(Head(s)) - BaseWeight(Head(t)))
    ELSE CollatorCompare(Tail(s), Tail(t))

\* CompareStatus with a status that is in no rank table ranked first (rank 0)
CompareStatusUnknownFirst(a, b, order, statusOrd) ==
    LET statusA == IF TruthyString(a.calculatedStatus) THEN Val(a.calculatedStatus)
                   ELSE IF TruthyString(a.status) THEN Val(a.status) ELSE ""
        statusB == IF TruthyString(b.calculatedStatus) THEN Val(b.calculatedStatus)
                   ELSE IF TruthyString(b.status) THEN Val(b.status) ELSE ""
        valA == IF statusA \in DOMAIN statusOrd THEN statusOrd[statusA] ELSE 0
        valB == IF statusB \in DOMAIN statusOrd THEN statusOrd[statusB] ELSE 0
        comparison == valA - valB
    IN  IF order = "asc" THEN comparison ELSE -comparison

\* sortFactory.status
CompareStatus(a, b, order, statusOrd) ==
    LET statusA == IF TruthyString(a.calculatedStatus) THEN Val(a.calculatedStatus)
                   ELSE IF TruthyString(a.status) THEN Val(a.status) ELSE ""
        statusB == IF TruthyString(b.calculatedStatus) THEN Val(b.calculatedStatus)
                   ELSE IF TruthyString(b.status) THEN Val(b.status) ELSE ""
        valA == IF statusA \in DOMAIN statusOrd THEN statusOrd[statusA] ELSE UnknownRank
        valB == IF statusB \in DOMAIN statusOrd THEN statusOrd[statusB] ELSE UnknownRank
        comparison == valA - valB
    IN  IF order = "asc" THEN comparison ELSE -comparison

\* sortFactory.priority
ComparePriority(a, b, order) ==
    LET aHasPriority == IsDefined(a.priority)
        bHasPriority == IsDefined(b.priority)
        comparison == IF ~aHasPriority /\ ~bHasPriority THEN 0
                      ELSE IF ~aHasPriority THEN 1
                      ELSE IF ~bHasPriority THEN -1
                      ELSE Val(a.priority) - Val(b.priority)
    IN  IF order = "asc" THEN -comparison ELSE comparison

\* sortByDate
sortByDate(field, a, b, order) ==
    LET aHasDate == IsDefined(a[field])
        bHasDate == IsDefined(b[field])
        comparison == IF ~aHasDate /\ ~bHasDate THEN 0
                      ELSE IF ~aHasDate THEN 1
                      ELSE IF ~bHasDate THEN -1
                      ELSE Val(a[field]) - Val(b[field])
    IN  IF order = "asc" THEN comparison ELSE -comparison

\* sortFactory.content: an undefined and an empty content are both falsy
CompareContent(a, b, order) ==
    LET aHas == IsDefined(a.content) /\ Val(a.content) # <<>>
        bHas == IsDefined(b.content) /\ Val(b.content) # <<>>
    IN  IF ~aHas /\ ~bHas THEN 0
        ELSE IF ~aHas THEN (IF order = "asc" THEN 1 ELSE -1)
        ELSE IF ~bHas THEN (IF order = "asc" THEN -1 ELSE 1)
        ELSE LET comparison == CollatorCompare(Val(a.content), Val(b.content))
             IN  IF order = "asc" THEN comparison ELSE -comparison

\* the keys of sortFactory
SortFactoryFields ==
    {"status", "priority", "dueDate", "startDate", "scheduledDate", "content"}

\* sortFactory[criterion.field](taskA, taskB, criterion.order)
SortMethod(criterion, a, b, statusOrd) ==
    CASE criterion.field = "status" -> CompareStatus(a, b, criterion.order, statusOrd)
      [] criterion.field = "priority" -> ComparePriority(a, b, criterion.order)
      [] criterion.field \in {"dueDate", "startDate", "scheduledDate"} ->
            sortByDate(criterion.field, a, b, criterion.order)
      [] criterion.field = "content" -> CompareContent(a, b, criterion.order)

\* CompareByCriteria that consults the first criterion only
CompareFirstCriterionOnly(a, b, crit, statusOrd, i) ==
    IF Len(crit) >= 1 /\ crit[1].field \in SortFactoryFields
       /\ SortMethod(crit[1], a, b, statusOrd) # 0
    THEN SortMethod(crit[1], a, b, statusOrd)
    ELSE IF IsDefined(a.lineNumber) /\ IsDefined(b.lineNumber)
         THEN Val(a.lineNumber) - Val(b.lineNumber)
         ELSE 0

\* the loop over the criteria and the line number fallback (lines 780-797)
RECURSIVE CompareByCriteria(_, _, _, _, _)
CompareByCriteria(a, b, crit, statusOrd, i) ==
    IF i > Len(crit)
    THEN IF IsDefined(a.lineNumber) /\ IsDefined(b.lineNumber)
         THEN Val(a.lineNumber) - Val(b.lineNumber)
         ELSE 0
    ELSE IF crit[i].field \in SortFactoryFields
            /\ SortMethod(crit[i], a, b, statusOrd) # 0
         THEN SortMethod(crit[i], a, b, statusOrd)
         ELSE CompareByCriteria(a, b, crit, statusOrd, i + 1)

\* the comparison without the completed pre-rule
CompletedRuleMissing(a, b) == 0

\* the completed pre-rule (lines 662-665): taskA.completed !== taskB.completed
CompletedRule(a, b) ==
    IF a.completed # b.completed
    THEN (IF TruthyBool(a.completed) THEN 1 ELSE -1)
    ELSE 0

compareTasks(a, b, crit, statusOrd) ==
    IF CompletedRule(a, b) # 0
    THEN CompletedRule(a, b)
    ELSE CompareByCriteria(a, b, crit, statusOrd, 1)

---------------------------------------------------------------------------
(* Array.prototype.sort as the runtime performs it on a short array: the   *)
(* array is one run, found by counting the initial run (a strictly         *)
(* descending run is reversed) and extended by binary insertion. The sort  *)
(* is stable; the comparator is called as compare(pivot, element).         *)

Reverse(arr) == [i \in 1..Len(arr) |-> arr[Len(arr) + 1 - i]]

\* index of the last element of the run that starts at arr[1], arr[2]
RECURSIVE RunEnd(_, _, _, _, _)
RunEnd(arr, isDescending, idx, crit, statusOrd) ==
    IF idx > Len(arr) THEN idx - 1
    ELSE LET order == compareTasks(arr[idx], arr[idx - 1], crit, statusOrd)
         IN  IF (isDescending /\ order >= 0) \/ (~isDescending /\ order < 0)
             THEN idx - 1
             ELSE RunEnd(arr, isDescending, idx + 1, crit, statusOrd)

\* binary search of the place of pivot in arr[left+1 .. right] (0-based
\* bounds left, right as in the runtime): the result is the 0-based index
RECURSIVE BinarySearch(_, _, _, _, _, _)
BinarySearch(arr, pivot, left, right, crit, statusOrd) ==
    IF left >= right THEN left
    ELSE LET mid == left + ((right - left) \div 2)
             order == compareTasks(pivot, arr[mid + 1], crit, statusOrd)
         IN  IF order < 0
             THEN BinarySearch(arr, pivot, left, mid, crit, statusOrd)
             ELSE BinarySearch(arr, pivot, mid + 1, right, crit, statusOrd)

\* arr[1..start-1] is sorted; insert arr[start], arr[start+1], ...
RECURSIVE BinaryInsertionSort(_, _, _, _)
BinaryInsertionSort(arr, start, crit, statusOrd) ==
    IF start > Len(arr) THEN arr
    ELSE LET pivot == arr[start]
             pos == BinarySearch(arr, pivot, 0, start - 1, crit, statusOrd)
             moved == SubSeq(arr, 1, pos) \o <<pivot>>
                      \o SubSeq(arr, pos + 1, start - 1)
                      \o SubSeq(arr, start + 1, Len(arr))
         IN  BinaryInsertionSort(moved, start + 1, crit, statusOrd)

\* arr.sort((a, b) => compareTasks(a, b, criteria, statusOrder))
ArraySort(arr, crit, statusOrd) ==
    IF Len(arr) < 2 THEN arr
    ELSE LET isDescending == compareTasks(arr[2], arr[1], crit, statusOrd) < 0
             run == RunEnd(arr, isDescending, 3, crit, statusOrd)
             made == IF isDescending
                     THEN Reverse(SubSeq(arr, 1, run)) \o SubSeq(arr, run + 1, Len(arr))
                     ELSE arr
         IN  BinaryInsertionSort(made, run + 1, crit, statusOrd)

---------------------------------------------------------------------------
(* sortTasks, sortTasksRecursively *)

\* tasks.map(...): a task without a truthy calculatedStatus gets its status
PrepareTask(task) ==
    IF TruthyString(task.calculatedStatus) THEN task
    ELSE [task EXCEPT !.calculatedStatus =
            Some(IF TruthyString(task.status) THEN Val(task.status) ELSE "")]

sortTasks(arr, crit, s) ==
    ArraySort([i \in 1..Len(arr) |-> PrepareTask(arr[i])], crit,
              getDynamicStatusOrder(s))

\* sortTasksRecursively that sorts the array it is given and no child list
sortTasksTopLevelOnly(arr, crit, s) ==
    ArraySort(arr, crit, getDynamicStatusOrder(s))

RECURSIVE sortTasksRecursively(_, _, _)
sortTasksRecursively(arr, crit, s) ==
    LET level == ArraySort(arr, crit, getDynamicStatusOrder(s))
    IN  [i \in 1..Len(level) |->
            IF Len(level[i].children) > 0
            THEN [level[i] EXCEPT !.children = sortTasksRecursively(@, crit, s)]
            ELSE level[i]]

---------------------------------------------------------------------------
(* parseTasksForSorting. A line of the block is given by what parseTaskLine *)
(* returns for it: isTask = FALSE when it returns null, else the parsed     *)
(* fields; indentation is getIndentationLevel of the line.                  *)

\* the calculated status of a parsed task (lines 476-497)
CalculatedStatus(parsedTask, todayTimestamp) ==
    IF /\ ~parsedTask.completed
       /\ parsedTask.status # Cancelled
       /\ IsDefined(parsedTask.dueDate) /\ Val(parsedTask.dueDate) # 0
       /\ Val(parsedTask.dueDate) < todayTimestamp
    THEN Overdue
    ELSE parsedTask.status

\* the stack walk (lines 520-542): parents[i] is the index of the line that
\* becomes the parent of the task on line i, 0 for a top-level task
RECURSIVE PopStack(_, _, _)
PopStack(blockLines, stack, indentation) ==
    IF Len(stack) > 0 /\ indentation <= blockLines[stack[Len(stack)]].indentation
    THEN PopStack(blockLines, SubSeq(stack, 1, Len(stack) - 1), indentation)
    ELSE stack

RECURSIVE ParentWalk(_, _, _, _)
ParentWalk(blockLines, i, stack, parents) ==
    IF i > Len(blockLines) THEN parents
    ELSE IF ~blockLines[i].isTask
    THEN ParentWalk(blockLines, i + 1, stack, parents)
    ELSE LET kept == PopStack(blockLines, stack, blockLines[i].indentation)
             parent == IF Len(kept) > 0 THEN kept[Len(kept)] ELSE 0
         IN  ParentWalk(blockLines, i + 1, Append(kept, i),
                        [parents EXCEPT ![i] = parent])

ParentsOf(blockLines) ==
    ParentWalk(blockLines, 1, <<>>, [i \in 1..Len(blockLines) |-> 0])

\* the task lines whose parent is line p (0: the top level), in line order
ChildLines(blockLines, p) ==
    SelectSeq([i \in 1..Len(blockLines) |-> i],
        LAMBDA i : blockLines[i].isTask /\ ParentsOf(blockLines)[i] = p)

\* the SortableTask of line i with its children (lines 500-518, 536-537)
RECURSIVE SortableTask(_, _, _, _)
SortableTask(blockLines, i, lineOffset, todayTimestamp) ==
    LET parsedTask == blockLines[i]
        kids == ChildLines(blockLines, i)
    IN  [ originalMarkdown |-> i,
          status |-> Some(parsedTask.status),
          completed |-> Some(parsedTask.completed),
          content |-> parsedTask.content,
          priority |-> parsedTask.priority,
          dueDate |-> parsedTask.dueDate,
          startDate |-> parsedTask.startDate,
          scheduledDate |-> parsedTask.scheduledDate,
          lineNumber |-> Some(lineOffset + i - 1),
          indentation |-> parsedTask.indentation,
          parent |-> IF ParentsOf(blockLines)[i] = 0 THEN Undefined
                     ELSE Some(lineOffset + ParentsOf(blockLines)[i] - 1),
          children |-> [k \in 1..Len(kids) |->
                          SortableTask(blockLines, kids[k], lineOffset, todayTimestamp)],
          calculatedStatus |-> Some(CalculatedStatus(parsedTask, todayTimestamp)) ]

\* the top-level tasks of the block
parseTasksForSorting(blockLines, lineOffset, todayTimestamp) ==
    LET roots == ChildLines(blockLines, 0)
    IN  [k \in 1..Len(roots) |->
            SortableTask(blockLines, roots[k], lineOffset, todayTimestamp)]

---------------------------------------------------------------------------
(* Values left alone by a specification that does not use them *)

NoSettings == [taskStatusCycle |-> <<>>, taskStatusMarks |-> EmptyOrder,
               excludeMarksFromCycle |-> <<>>, taskStatuses |-> Undefined]
NoTask == <<>>

CompareIdle == taskA = NoTask /\ taskB = NoTask /\ taskC = NoTask /\ cmp = <<>>
SortIdle ==
    lines = <<>> /\ today = 0 /\ tasks = <<>> /\ sorted = <<>> /\ sortedBefore = <<>>

---------------------------------------------------------------------------
(* Specification SpecOrder: getDynamicStatusOrder over bounded settings *)

StatusNames == {"Not Started", "In Progress", "Completed", "Abandoned"}

RECURSIVE SeqsUpTo(_, _)
SeqsUpTo(S, n) ==
    IF n = 0 THEN {<<>>}
    ELSE SeqsUpTo(S, n - 1)
         \cup {Append(q, x) : q \in {r \in SeqsUpTo(S, n - 1) : Len(r) = n - 1}, x \in S}

DefaultMarks ==
    ("Not Started" :> " ") @@ ("In Progress" :> "/") @@ ("Completed" :> "x")
    @@ ("Abandoned" :> "-")

MarkMaps ==
    { DefaultMarks,
      \* a status name of the cycle without a mark
      ("Not Started" :> " ") @@ ("In Progress" :> "/") @@ ("Completed" :> "x"),
      \* two names with the same mark, an upper-case completed mark, a
      \* cancelled mark that only the configuration names
      ("Not Started" :> "/") @@ ("In Progress" :> "/") @@ ("Completed" :> "X")
      @@ ("Abandoned" :> "c") }

Excludes == {<<>>, <<"In Progress">>, <<"Completed">>}

DefaultTaskStatuses ==
    << [type |-> "completed", marks |-> <<"x", "X">>],
       [type |-> "inProgress", marks |-> <<">", "/">>],
       [type |-> "abandoned", marks |-> <<"-">>],
       [type |-> "planned", marks |-> <<"?">>],
       [type |-> "notStarted", marks |-> <<" ">>] >>

TaskStatusesChoices ==
    { Undefined,
      Some(DefaultTaskStatuses),
      \* an empty completed string, a second cancelled marker, an empty piece
      Some(<< [type |-> "completed", marks |-> <<"">>],
              [type |-> "abandoned", marks |-> <<"-", "c">>],
              [type |-> "inProgress", marks |-> <<"/", "">>] >>),
      \* a marker configured both as completed and as abandoned
      Some(<< [type |-> "abandoned", marks |-> <<"-", "x">>],
              [type |-> "completed", marks |-> <<"x", "-">>],
              [type |-> "planned", marks |-> <<"?", "!">>] >>) }

SettingsSpace ==
    [taskStatusCycle : SeqsUpTo(StatusNames, MaxCycle),
     taskStatusMarks : MarkMaps,
     excludeMarksFromCycle : Excludes,
     taskStatuses : TaskStatusesChoices]

InitOrder ==
    /\ AppIdle
    /\ WorkerIdle
    /\ pc = "start"
    /\ settings \in SettingsSpace
    /\ statusOrder = EmptyOrder
    /\ criteria = <<>>
    /\ CompareIdle
    /\ SortIdle

GetDynamicStatusOrder ==
    /\ UNCHANGED appVars
    /\ UNCHANGED workerVars
    /\ pc = "start"
    /\ statusOrder' = getDynamicStatusOrder(settings)
    /\ pc' = "ranked"
    /\ UNCHANGED <<settings, criteria, taskA, taskB, taskC, cmp,
                   lines, today, tasks, sorted, sortedBefore>>

NextOrder == GetDynamicStatusOrder

SpecOrder == InitOrder /\ [][NextOrder]_vars

---------------------------------------------------------------------------
(* What the status configuration says, read off the settings *)

IsCompletedMark(s, m) == Includes(CompletedMarkers(s), m)
IsCancelledMark(s, m) == Includes(CancelledMarkers(s), m)

RECURSIVE Distinct(_)
Distinct(q) ==
    IF q = <<>> THEN <<>>
    ELSE LET front == Distinct(SubSeq(q, 1, Len(q) - 1))
         IN  IF Includes(front, q[Len(q)]) THEN front ELSE Append(front, q[Len(q)])

RECURSIVE Flatten(_)
Flatten(qs) == IF qs = <<>> THEN <<>> ELSE Head(qs) \o Flatten(Tail(qs))

Range(q) == {q[i] : i \in DOMAIN q}

\* the markers of the non-excluded entries of the cycle, in cycle order
IncludedCycleMarks(s) ==
    LET names == SelectSeq(s.taskStatusCycle,
                    LAMBDA n : MarkOf(s, n) # "" /\ ~Includes(s.excludeMarksFromCycle, n))
    IN  [i \in 1..Len(names) |-> MarkOf(s, names[i])]

\* those that are neither completed nor cancelled, each once
PlainCycleMarks(s) ==
    Distinct(SelectSeq(IncludedCycleMarks(s),
                LAMBDA m : ~IsCompletedMark(s, m) /\ ~IsCancelledMark(s, m)))

\* the markers of the broader configuration that the cycle walk did not rank
UnrankedConfigMarks(s) ==
    LET all == IF IsDefined(s.taskStatuses)
               THEN Flatten([i \in 1..Len(Val(s.taskStatuses)) |->
                                Val(s.taskStatuses)[i].marks])
               ELSE <<>>
    IN  Distinct(SelectSeq(all,
            LAMBDA m : m # "" /\ m # Overdue /\ m \notin Range(IncludedCycleMarks(s))))

PlainUnrankedMarks(s) ==
    SelectSeq(UnrankedConfigMarks(s),
        LAMBDA m : ~IsCompletedMark(s, m) /\ ~IsCancelledMark(s, m))

\* C7: 'overdue' has rank 1; the non-excluded cycle markers that are neither
\* completed nor cancelled have the ranks 2, 3, ... in cycle order; every
\* completed marker of the cycle has rank 98 and every cancelled marker of the
\* cycle (that is not also a completed marker, which the walk tests first) 99.
C7_CycleRanks ==
    pc = "ranked" =>
        /\ statusOrder[Overdue] = 1
        /\ \A i \in DOMAIN PlainCycleMarks(settings) :
              statusOrder[PlainCycleMarks(settings)[i]] = i + 1
        /\ \A m \in Range(IncludedCycleMarks(settings)) :
              /\ IsCompletedMark(settings, m) => statusOrder[m] = CompletedRank
              /\ (IsCancelledMark(settings, m) /\ ~IsCompletedMark(settings, m))
                    => statusOrder[m] = CancelledRank

\* the cycle [In Progress: "/", Completed: "x"] with "x" completed:
\* rank(overdue) < rank("/") < rank("x") = 98
C7_Witness ==
    /\ pc = "ranked"
    /\ settings.taskStatusCycle = <<"In Progress", "Completed">>
    /\ settings.taskStatusMarks = DefaultMarks
    /\ settings.excludeMarksFromCycle = <<>>
    /\ statusOrder[Overdue] < statusOrder["/"]
    /\ statusOrder["/"] < statusOrder["x"]
    /\ statusOrder["x"] = 98

\* C8: a marker of the broader configuration that the cycle walk did not rank
\* has rank 98 if completed, else 99 if cancelled, else the next sequential
\* rank after the cycle-derived ones; then " " has rank 10 and "x" rank 98 if
\* still unassigned; a rank assigned by the cycle walk is never overwritten and
\* nothing else is ranked.
C8_FallbackRanks ==
    pc = "ranked" =>
        LET s == settings
            new == UnrankedConfigMarks(s)
            plain == PlainUnrankedMarks(s)
            cycleOrder == OrderFromCycle(s).order
            known == {Overdue} \cup Range(IncludedCycleMarks(s)) \cup Range(new)
        IN  /\ \A m \in Range(new) :
                  /\ IsCompletedMark(s, m) => statusOrder[m] = CompletedRank
                  /\ (IsCancelledMark(s, m) /\ ~IsCompletedMark(s, m))
                        => statusOrder[m] = CancelledRank
            /\ \A i \in DOMAIN plain :
                  statusOrder[plain[i]] = 1 + Len(PlainCycleMarks(s)) + i
            /\ " " \notin known => statusOrder[" "] = DefaultIncompleteRank
            /\ "x" \notin known => statusOrder["x"] = CompletedRank
            /\ \A m \in DOMAIN cycleOrder : statusOrder[m] = cycleOrder[m]
            /\ DOMAIN statusOrder = known \cup {" ", "x"}

\* a cycle-ranked marker, a completed, a cancelled and a plain marker ranked
\* by the fallback, and the default of " "
C8_Witness ==
    /\ pc = "ranked"
    /\ settings.taskStatusCycle = <<"In Progress">>
    /\ settings.taskStatusMarks = DefaultMarks
    /\ settings.taskStatuses = Some(<< [type |-> "abandoned", marks |-> <<"-", "x">>],
                                      [type |-> "completed", marks |-> <<"x", "-">>],
                                      [type |-> "planned", marks |-> <<"?", "!">>] >>)
    /\ statusOrder["/"] = 2
    /\ statusOrder["-"] = 98
    /\ statusOrder["?"] = 3
    /\ statusOrder["!"] = 4
    /\ statusOrder[" "] = 10

---------------------------------------------------------------------------
(* Bounded inputs of compareTasks *)

\* the settings the comparisons run under: the default cycle and markers
DefaultSettings ==
    [taskStatusCycle |-> <<"Not Started", "In Progress", "Completed", "Abandoned">>,
     taskStatusMarks |-> DefaultMarks,
     excludeMarksFromCycle |-> <<>>,
     taskStatuses |-> Some(DefaultTaskStatuses)]

Orders == {"asc", "desc"}
\* the fields a criterion may name; "tags" is not a key of sortFactory
CriterionFields == SortFactoryFields \cup {"tags"}
Criteria == [field : CriterionFields, order : Orders]

CompletedValues == {Undefined, Some(FALSE), Some(TRUE)}
NumberValues == {Undefined} \cup {Some(v) : v \in 1..MaxVal}
ContentValues ==
    {Undefined, Some(<<"a", "1", "0">>), Some(<<"a", "2">>), Some(<<"A", "2">>)}
\* calculatedStatus and status: none, a ranked raw status, the calculated
\* 'overdue', a status that is in no rank table
StatusValues ==
    { [calculatedStatus |-> Undefined, status |-> Undefined],
      [calculatedStatus |-> Undefined, status |-> Some("/")],
      [calculatedStatus |-> Some(Overdue), status |-> Some("/")],
      [calculatedStatus |-> Some("q"), status |-> Some(" ")] }

FieldsOf(crit) == {crit[i].field : i \in DOMAIN crit}

\* the tasks that differ in the fields compareTasks reads under crit: the
\* completed flag, the line number and the fields the criteria name
TasksFor(crit, completedValues) ==
    LET F == FieldsOf(crit)
        Num(f) == IF f \in F THEN NumberValues ELSE {Undefined}
    IN  { [completed |-> c, lineNumber |-> l, priority |-> p, dueDate |-> d,
           startDate |-> sd, scheduledDate |-> sc, content |-> ct,
           calculatedStatus |-> st.calculatedStatus, status |-> st.status,
           children |-> <<>>] :
            c \in completedValues, l \in NumberValues,
            p \in Num("priority"), d \in Num("dueDate"),
            sd \in Num("startDate"), sc \in Num("scheduledDate"),
            ct \in (IF "content" \in F THEN ContentValues ELSE {Undefined}),
            st \in (IF "status" \in F THEN StatusValues
                    ELSE {[calculatedStatus |-> Undefined, status |-> Undefined]}) }

---------------------------------------------------------------------------
(* Specification SpecCmp: compareTasks on two tasks, up to two criteria *)

\* every single criterion, and every pair over four of the fields
PairCriteria == [field : {"status", "priority", "dueDate", "tags"}, order : Orders]
CriteriaLists ==
    {<<>>} \cup {<<c>> : c \in Criteria}
           \cup {<<c, d>> : c \in PairCriteria, d \in PairCriteria}

InitCmp ==
    /\ AppIdle
    /\ WorkerIdle
    /\ pc = "start"
    /\ settings = DefaultSettings
    /\ statusOrder = EmptyOrder
    /\ criteria \in CriteriaLists
    /\ taskA \in TasksFor(criteria, {Some(FALSE), Some(TRUE)})
    /\ taskB \in TasksFor(criteria, {Some(FALSE), Some(TRUE)})
    /\ taskC = NoTask
    /\ cmp = <<>>
    /\ SortIdle

\* the comparator as sortTasks calls it: on the rank table of the settings,
\* in both argument orders
ComparePair ==
    /\ UNCHANGED appVars
    /\ UNCHANGED workerVars
    /\ pc = "start"
    /\ statusOrder' = getDynamicStatusOrder(settings)
    /\ cmp' = [ab |-> compareTasks(taskA, taskB, criteria, statusOrder'),
               ba |-> compareTasks(taskB, taskA, criteria, statusOrder')]
    /\ pc' = "compared"
    /\ UNCHANGED <<settings, criteria, taskA, taskB, taskC,
                   lines, today, tasks, sorted, sortedBefore>>

NextCmp == ComparePair

SpecCmp == InitCmp /\ [][NextCmp]_vars

---------------------------------------------------------------------------
(* Claims about compareTasks on a pair (SpecCmp) *)

SameCompleted == taskA.completed = taskB.completed
DateFields == {"dueDate", "startDate", "scheduledDate"}

\* C4: under the priority criterion a task lacking a priority sorts after a
\* task that has one, in the ascending and in the descending direction; among
\* tasks with a priority, ascending places the higher numeric value first.
C4_PriorityMissingLast ==
    (pc = "compared" /\ Len(criteria) >= 1 /\ criteria[1].field = "priority"
        /\ SameCompleted) =>
        /\ (~IsDefined(taskA.priority) /\ IsDefined(taskB.priority)) => cmp.ab > 0
        /\ (IsDefined(taskA.priority) /\ IsDefined(taskB.priority)
            /\ criteria[1].order = "asc"
            /\ Val(taskA.priority) > Val(taskB.priority)) => cmp.ab < 0

\* C5: under a due/scheduled/start date criterion a task lacking the date
\* sorts after a task that has it, in the ascending and in the descending
\* direction; among dated tasks ascending places the earlier timestamp first.
C5_DateMissingLast ==
    (pc = "compared" /\ Len(criteria) >= 1 /\ criteria[1].field \in DateFields
        /\ SameCompleted) =>
        LET f == criteria[1].field
        IN  /\ (~IsDefined(taskA[f]) /\ IsDefined(taskB[f])) => cmp.ab > 0
            /\ (IsDefined(taskA[f]) /\ IsDefined(taskB[f])
                /\ criteria[1].order = "asc"
                /\ Val(taskA[f]) < Val(taskB[f])) => cmp.ab < 0

\* the result of the i-th criterion on (taskA, taskB); an unrecognised field
\* is skipped, which is a result of 0
CriterionResult(i) ==
    IF criteria[i].field \in SortFactoryFields
    THEN SortMethod(criteria[i], taskA, taskB, statusOrder)
    ELSE 0

BothLineNumbers == IsDefined(taskA.lineNumber) /\ IsDefined(taskB.lineNumber)

\* C6: on two tasks with the same completed flag, compareTasks returns the
\* result of the first criterion, in listed order, whose comparison is
\* non-zero (unrecognised fields are skipped); when every criterion compares
\* equal the result is the difference of the line numbers; two tasks with
\* distinct line numbers never compare equal.
C6_FirstNonZeroWins ==
    pc = "compared" =>
        /\ SameCompleted =>
            LET decisive == {i \in DOMAIN criteria : CriterionResult(i) # 0}
            IN  IF decisive # {}
                THEN cmp.ab = CriterionResult(
                        CHOOSE i \in decisive : \A j \in decisive : i <= j)
                ELSE BothLineNumbers =>
                        cmp.ab = Val(taskA.lineNumber) - Val(taskB.lineNumber)
        /\ (BothLineNumbers /\ taskA.lineNumber # taskB.lineNumber) => cmp.ab # 0

\* the first criterion compares equal, the second decides, against the order
\* of the line numbers
C6_Witness ==
    /\ pc = "compared"
    /\ SameCompleted
    /\ Len(criteria) = 2
    /\ criteria[1].field = "dueDate"
    /\ IsDefined(taskA.dueDate)
    /\ CriterionResult(1) = 0
    /\ CriterionResult(2) > 0
    /\ cmp.ab = CriterionResult(2)
    /\ BothLineNumbers
    /\ Val(taskA.lineNumber) < Val(taskB.lineNumber)

\* the status compareTasks ranks: the calculated status, else the raw status
RankedStatus(t) ==
    IF TruthyString(t.calculatedStatus) THEN Val(t.calculatedStatus)
    ELSE IF TruthyString(t.status) THEN Val(t.status) ELSE ""

RankOf(t) ==
    IF RankedStatus(t) \in DOMAIN statusOrder
    THEN statusOrder[RankedStatus(t)] ELSE UnknownRank

\* C9: the status criterion compares the rank-table values of the calculated
\* (else raw) status; a status absent from the table counts as rank 1000, so
\* ascending it sorts after every ranked status; the result is always a number.
C9_StatusRank ==
    (pc = "compared" /\ Len(criteria) >= 1 /\ criteria[1].field = "status"
        /\ SameCompleted) =>
        /\ cmp.ab \in Int
        /\ RankOf(taskA) # RankOf(taskB) =>
              cmp.ab = IF criteria[1].order = "asc"
                       THEN RankOf(taskA) - RankOf(taskB)
                       ELSE RankOf(taskB) - RankOf(taskA)
        /\ (criteria[1].order = "asc"
            /\ RankedStatus(taskA) \notin DOMAIN statusOrder
            /\ RankedStatus(taskB) \in DOMAIN statusOrder) => cmp.ab > 0

\* an unknown calculated status against a ranked raw status, ascending
C9_Witness ==
    /\ pc = "compared"
    /\ criteria = <<[field |-> "status", order |-> "asc"]>>
    /\ SameCompleted
    /\ taskA.calculatedStatus = Some("q")
    /\ taskB.calculatedStatus = Undefined
    /\ taskB.status = Some("/")
    /\ cmp.ab = UnknownRank - statusOrder["/"]
    /\ cmp.ba < 0

---------------------------------------------------------------------------
(* Specification SpecOrd: compareTasks on three tasks, at most one         *)
(* criterion; every optional field the comparison reads may be absent      *)

OrdCriteriaLists ==
    { <<>>,
      <<[field |-> "status", order |-> "asc"]>>,
      <<[field |-> "priority", order |-> "asc"]>>,
      <<[field |-> "dueDate", order |-> "desc"]>>,
      <<[field |-> "content", order |-> "desc"]>> }

InitOrd ==
    /\ AppIdle
    /\ WorkerIdle
    /\ pc = "start"
    /\ settings = DefaultSettings
    /\ statusOrder = EmptyOrder
    /\ criteria \in OrdCriteriaLists
    /\ taskA \in TasksFor(criteria, CompletedValues)
    /\ taskB \in TasksFor(criteria, CompletedValues)
    /\ taskC \in TasksFor(criteria, CompletedValues)
    /\ cmp = <<>>
    /\ SortIdle

CompareTriple ==
    /\ UNCHANGED appVars
    /\ UNCHANGED workerVars
    /\ pc = "start"
    /\ statusOrder' = getDynamicStatusOrder(settings)
    /\ cmp' = [ab |-> compareTasks(taskA, taskB, criteria, statusOrder'),
               ba |-> compareTasks(taskB, taskA, criteria, statusOrder'),
               bc |-> compareTasks(taskB, taskC, criteria, statusOrder'),
               ac |-> compareTasks(taskA, taskC, criteria, statusOrder')]
    /\ pc' = "compared"
    /\ UNCHANGED <<settings, criteria, taskA, taskB, taskC,
                   lines, today, tasks, sorted, sortedBefore>>

NextOrd == CompareTriple

SpecOrd == InitOrd /\ [][NextOrd]_vars

\* C2: compareTasks is a strict weak ordering, also when optional fields are
\* absent on some tasks: sign(compare(a,b)) = -sign(compare(b,a)); compare(a,b)<0
\* and compare(b,c)<0 imply compare(a,c)<0; compare(a,b)=0 and compare(b,c)=0
\* imply compare(a,c)=0.
C2_StrictWeakOrder ==
    pc = "compared" =>
        /\ Sign(cmp.ab) = -Sign(cmp.ba)
        /\ (cmp.ab < 0 /\ cmp.bc < 0) => cmp.ac < 0
        /\ (cmp.ab = 0 /\ cmp.bc = 0) => cmp.ac = 0

---------------------------------------------------------------------------
(* Specification Spec: the sort engine on task arrays.                     *)
(*   "list":     sortTasks on an array of task objects of its parameter    *)
(*               type, where every field compareTasks reads is optional;   *)
(*   "document": parseTasksForSorting on a block, then sortTasksRecursively*)
(*               on the forest of SortableTasks it returns.                *)
(* Either sort is run twice, the second time on its own output.            *)

SortCriteriaLists ==
    { <<>>,
      <<[field |-> "priority", order |-> "asc"]>>,
      <<[field |-> "priority", order |-> "desc"]>> }

PriorityValues(crit) ==
    IF "priority" \in FieldsOf(crit) THEN {Undefined, Some(1)} ELSE {Undefined}

\* task objects handed to sortTasks
ListTasks(crit) ==
    { [completed |-> c, lineNumber |-> l, priority |-> p, dueDate |-> Undefined,
       startDate |-> Undefined, scheduledDate |-> Undefined, content |-> Undefined,
       calculatedStatus |-> Undefined, status |-> Some(" "), children |-> <<>>] :
        c \in CompletedValues, l \in {Undefined, Some(1), Some(2)},
        p \in PriorityValues(crit) }

NonTaskLine == [isTask |-> FALSE, indentation |-> 0]

\* lines of a block: a line that is no task, or a parsed task line
DocumentLines(crit) ==
    {NonTaskLine} \cup
    { [isTask |-> TRUE, indentation |-> n, status |-> IF c THEN "x" ELSE " ",
       completed |-> c, priority |-> p, dueDate |-> Undefined,
       startDate |-> Undefined, scheduledDate |-> Undefined,
       content |-> Undefined] :
        n \in {0, 2, 4}, c \in BOOLEAN, p \in PriorityValues(crit) }

Init ==
    /\ AppIdle
    /\ WorkerIdle
    /\ settings = DefaultSettings
    /\ statusOrder = EmptyOrder
    /\ criteria \in SortCriteriaLists
    /\ CompareIdle
    /\ sorted = <<>>
    /\ sortedBefore = <<>>
    /\ \/ /\ pc = "list"
          /\ tasks \in SeqsUpTo(ListTasks(criteria), MaxTasks)
          /\ lines = <<>>
          /\ today = 0
       \/ /\ pc = "document"
          /\ lines \in SeqsUpTo(DocumentLines(criteria), MaxTasks)
          /\ today = 1
          /\ tasks = <<>>

ParseTasksForSorting ==
    /\ UNCHANGED appVars
    /\ UNCHANGED workerVars
    /\ pc = "document"
    /\ tasks' = parseTasksForSorting(lines, 0, today)
    /\ pc' = "parsed"
    /\ UNCHANGED <<settings, statusOrder, criteria, taskA, taskB, taskC, cmp,
                   lines, today, sorted, sortedBefore>>

SortTasks ==
    /\ UNCHANGED appVars
    /\ UNCHANGED workerVars
    /\ pc \in {"list", "sortTasks"}
    /\ sorted' = sortTasks(IF pc = "list" THEN tasks ELSE sorted, criteria, settings)
    /\ sortedBefore' = sorted
    /\ statusOrder' = getDynamicStatusOrder(settings)
    /\ pc' = IF pc = "list" THEN "sortTasks" ELSE "sortTasksAgain"
    /\ UNCHANGED <<settings, criteria, taskA, taskB, taskC, cmp, lines, today, tasks>>

SortTasksRecursively ==
    /\ UNCHANGED appVars
    /\ UNCHANGED workerVars
    /\ pc \in {"parsed", "sortTasksRecursively"}
    /\ sorted' = sortTasksRecursively(IF pc = "parsed" THEN tasks ELSE sorted,
                                      criteria, settings)
    /\ sortedBefore' = sorted
    /\ statusOrder' = getDynamicStatusOrder(settings)
    /\ pc' = IF pc = "parsed" THEN "sortTasksRecursively"
             ELSE "sortTasksRecursivelyAgain"
    /\ UNCHANGED <<settings, criteria, taskA, taskB, taskC, cmp, lines, today, tasks>>

Next == ParseTasksForSorting \/ SortTasks \/ SortTasksRecursively

Spec == Init /\ [][Next]_vars

---------------------------------------------------------------------------
(* Claims about the sorted arrays (Spec) *)

SortedTwice == pc \in {"sortTasksAgain", "sortTasksRecursivelyAgain"}

\* C1: sorting the output of sortTasks / sortTasksRecursively again with the
\* same criteria and settings yields the identical order.
C1_Idempotent == SortedTwice => sorted = sortedBefore

\* every sibling list of a sorted forest: the array and each children list
RECURSIVE SiblingLists(_)
SiblingLists(arr) ==
    {arr} \cup UNION {SiblingLists(arr[i].children) : i \in DOMAIN arr}

CompletedLast(arr) ==
    \A i \in DOMAIN arr : \A j \in DOMAIN arr :
        (i < j /\ TruthyBool(arr[i].completed)) => TruthyBool(arr[j].completed)

RECURSIVE SameTasks(_, _)
SameTasks(a, b) ==
    /\ Len(a) = Len(b)
    /\ \A i \in DOMAIN a :
          \E j \in DOMAIN b :
              /\ [b[j] EXCEPT !.children = <<>>] = [a[i] EXCEPT !.children = <<>>]
              /\ SameTasks(a[i].children, b[j].children)

OrderedByCompareTasks(arr) ==
    \A i \in DOMAIN arr : \A j \in DOMAIN arr :
        i < j => compareTasks(arr[i], arr[j], criteria,
                              getDynamicStatusOrder(settings)) <= 0

\* C15: after sortTasksRecursively the root list and every child list hold
\* the same tasks as before, in some order, every parent link is unchanged,
\* and every sibling list is ordered by compareTasks.
C15_TreeShapePreserved ==
    pc \in {"sortTasksRecursively", "sortTasksRecursivelyAgain"} =>
        /\ SameTasks(IF pc = "sortTasksRecursively" THEN tasks ELSE sortedBefore,
                     sorted)
        /\ \A arr \in SiblingLists(sorted) : OrderedByCompareTasks(arr)

\* the two incomplete children of a root change places and keep their parent
C15_Witness ==
    /\ pc = "sortTasksRecursively"
    /\ Len(tasks) = 1
    /\ Len(tasks[1].children) = 2
    /\ \A c \in 1..2 : ~TruthyBool(tasks[1].children[c].completed)
    /\ sorted[1].children[1].lineNumber = tasks[1].children[2].lineNumber
    /\ sorted[1].children[2].lineNumber = tasks[1].children[1].lineNumber
    /\ \A c \in 1..2 : sorted[1].children[c].parent = tasks[1].lineNumber

---------------------------------------------------------------------------
(* Specification SpecParse: the calculated status set by                   *)
(* parseTasksForSorting, under settings that configure the cancelled       *)
(* markers                                                                 *)

\* the default settings with a second abandoned marker, "c"
TwoCancelledSettings ==
    [DefaultSettings EXCEPT !.taskStatuses =
        Some(<< [type |-> "completed", marks |-> <<"x", "X">>],
                [type |-> "inProgress", marks |-> <<">", "/">>],
                [type |-> "abandoned", marks |-> <<"-", "c">>],
                [type |-> "planned", marks |-> <<"?">>],
                [type |-> "notStarted", marks |-> <<" ">>] >>)]

ParseLines ==
    {NonTaskLine} \cup
    { [isTask |-> TRUE, indentation |-> n, status |-> st, completed |-> c,
       priority |-> Undefined, dueDate |-> d, startDate |-> Undefined,
       scheduledDate |-> Undefined, content |-> Undefined] :
        n \in {0, 2}, st \in {" ", "-", "c"}, c \in BOOLEAN,
        d \in {Undefined, Some(1), Some(2)} }

InitParse ==
    /\ AppIdle
    /\ WorkerIdle
    /\ pc = "document"
    /\ settings \in {DefaultSettings, TwoCancelledSettings}
    /\ statusOrder = EmptyOrder
    /\ criteria = <<>>
    /\ CompareIdle
    /\ lines \in SeqsUpTo(ParseLines, MaxLines)
    /\ today \in {1, 2}
    /\ tasks = <<>>
    /\ sorted = <<>>
    /\ sortedBefore = <<>>

NextParse == ParseTasksForSorting

SpecParse == InitParse /\ [][NextParse]_vars

\* every task of a forest
RECURSIVE AllTasks(_)
AllTasks(arr) ==
    {arr[i] : i \in DOMAIN arr} \cup UNION {AllTasks(arr[i].children) : i \in DOMAIN arr}

\* C10: a task's calculated status is 'overdue' exactly when the task is
\* incomplete, is not cancelled per the configured cancelled markers and has a
\* due date earlier than the current date; otherwise it is the raw status.
C10_CalculatedStatus ==
    pc = "parsed" =>
        \A t \in AllTasks(tasks) :
            LET isOverdue == /\ ~Val(t.completed)
                             /\ ~IsCancelledMark(settings, Val(t.status))
                             /\ IsDefined(t.dueDate)
                             /\ Val(t.dueDate) < today
            IN  t.calculatedStatus = IF isOverdue THEN Some(Overdue) ELSE t.status

---------------------------------------------------------------------------
(* The indexing worker (TaskIndex.worker.ts).                              *)
(*                                                                         *)
(* A line of a file is a record: isTask (TASK_REGEX matches it),           *)
(* indentation (its leading whitespace), status (the marker between the    *)
(* brackets) and tokens, the whitespace-separated pieces of the text after *)
(* the checkbox. A token is [kind, fmt, val]:                              *)
(*   kind "word"                       plain text                          *)
(*   kind "dueDate", ..., "createdDate" a date annotation, val its date    *)
(*   kind "recurrence", "priority", "project", "context"                   *)
(*                                     fmt "dv": [key:: val]               *)
(*                                     fmt "emoji": the emoji / @val form  *)
(*   kind "tag"                        #val                                *)
(*   kind "projectTag"                 #project/val                        *)
(* The lines drawn carry no link syntax.                                   *)

\* the text of a tag token, split after EMOJI_PROJECT_PREFIX or after "#"
EMOJI_PROJECT_PREFIX == "#project/"
TagText(token) ==
    IF token.kind = "projectTag" THEN <<EMOJI_PROJECT_PREFIX, token.val>>
    ELSE <<"#", token.val>>

\* tag.startsWith(EMOJI_PROJECT_PREFIX)
StartsWithProjectPrefix(tag) == tag[1] = EMOJI_PROJECT_PREFIX

\* remainingContent.match(regex): the position of the first token the regex
\* of (kind, fmt) matches, 0 when there is none
FirstMatch(rest, kind, fmt) ==
    LET hits == {i \in DOMAIN rest : rest[i].kind = kind /\ rest[i].fmt = fmt}
    IN  IF hits = {} THEN 0 ELSE CHOOSE i \in hits : \A j \in hits : i <= j

\* remainingContent.replace(match[0], "")
RemoveAt(rest, i) == SubSeq(rest, 1, i - 1) \o SubSeq(rest, i + 1, Len(rest))

\* parseLocalDate: the timestamp of a date string, undefined when it is none
parseLocalDate(text) ==
    IF text = "2024-01-01" THEN Some(1)
    ELSE IF text = "2024-01-02" THEN Some(2)
    ELSE Undefined

\* PRIORITY_MAP[key]
PRIORITY_MAP(key) ==
    IF key \in {"high", "emoji-high"} THEN Some(4)
    ELSE IF key \in {"low", "emoji-low"} THEN Some(2)
    ELSE Undefined

\* parseInt(text, 10), undefined for NaN: the integer the text begins with
ParseInt(text) ==
    IF text = "1" THEN Some(1)
    ELSE IF text = "3" THEN Some(3)
    ELSE IF text = "2nd" THEN Some(2)
    ELSE Undefined

OtherFormat(fmt) == IF fmt = "dv" THEN "emoji" ELSE "dv"

\* tryParseAndAssign(regex, fieldName) of extractDates, on [task, rest];
\* the result carries ok, the boolean it returns
tryParseAndAssign(st, fieldName, fmt) ==
    IF IsDefined(st.task[fieldName]) THEN [st EXCEPT !.ok = FALSE]
    ELSE LET m == FirstMatch(st.rest, fieldName, fmt)
         IN  IF m # 0 /\ st.rest[m].val # ""
                /\ IsDefined(parseLocalDate(st.rest[m].val))
             THEN [task |-> [st.task EXCEPT ![fieldName] =
                                parseLocalDate(st.rest[m].val)],
                   rest |-> RemoveAt(st.rest, m), ok |-> TRUE]
             ELSE [st EXCEPT !.ok = FALSE]

\* !tryParseAndAssign(preferred, f) && tryParseAndAssign(other, f)
ExtractDate(st, fieldName, fmt) ==
    LET first == tryParseAndAssign(st, fieldName, fmt)
    IN  IF first.ok THEN first
        ELSE tryParseAndAssign(first, fieldName, OtherFormat(fmt))

WorkerDateFields ==
    <<"dueDate", "scheduledDate", "startDate", "completedDate", "createdDate">>

RECURSIVE ExtractDatesFrom(_, _, _)
ExtractDatesFrom(st, k, fmt) ==
    IF k > Len(WorkerDateFields) THEN st
    ELSE ExtractDatesFrom(ExtractDate(st, WorkerDateFields[k], fmt), k + 1, fmt)

\* extractDates(task, content, format): the task and the remaining content
extractDates(task, rest, fmtName) ==
    LET done == ExtractDatesFrom([task |-> task, rest |-> rest, ok |-> FALSE], 1,
                                 IF fmtName = "dataview" THEN "dv" ELSE "emoji")
    IN  [task |-> done.task, rest |-> done.rest]

\* the dataview attempt shared by recurrence, project and context:
\* match && match[1], the field set to match[1], the match removed
DataviewField(task, rest, fieldName) ==
    LET m == FirstMatch(rest, fieldName, "dv")
    IN  IF m # 0 /\ rest[m].val # ""
        THEN [task |-> [task EXCEPT ![fieldName] = Some(rest[m].val)],
              rest |-> RemoveAt(rest, m), found |-> TRUE]
        ELSE [task |-> task, rest |-> rest, found |-> FALSE]

extractRecurrence(task, rest, fmtName) ==
    LET dv == DataviewField(task, rest, "recurrence")
        m == FirstMatch(rest, "recurrence", "emoji")
    IN  IF fmtName = "dataview" /\ dv.found THEN [task |-> dv.task, rest |-> dv.rest]
        ELSE IF m # 0 /\ rest[m].val # ""
        THEN [task |-> [task EXCEPT !.recurrence = Some(rest[m].val)],
              rest |-> RemoveAt(rest, m)]
        ELSE [task |-> task, rest |-> rest]

\* the emoji attempt of extractPriority (lines 186-192)
EmojiPriority(task, rest) ==
    LET m == FirstMatch(rest, "priority", "emoji")
    IN  IF m # 0 /\ rest[m].val # ""
        THEN [task |-> [task EXCEPT !.priority = PRIORITY_MAP(rest[m].val)],
              rest |-> IF IsDefined(PRIORITY_MAP(rest[m].val))
                       THEN RemoveAt(rest, m) ELSE rest]
        ELSE [task |-> task, rest |-> rest]

extractPriority(task, rest, fmtName) ==
    LET m == FirstMatch(rest, "priority", "dv")
    IN  IF fmtName = "dataview" /\ m # 0 /\ rest[m].val # ""
           /\ IsDefined(PRIORITY_MAP(rest[m].val))
        THEN [task |-> [task EXCEPT !.priority = PRIORITY_MAP(rest[m].val)],
              rest |-> RemoveAt(rest, m)]
        ELSE IF fmtName = "dataview" /\ m # 0 /\ rest[m].val # ""
                /\ IsDefined(ParseInt(rest[m].val))
        THEN [task |-> [task EXCEPT !.priority = ParseInt(rest[m].val)],
              rest |-> RemoveAt(rest, m)]
        ELSE EmojiPriority(task, rest)

extractProject(task, rest, fmtName) ==
    LET dv == DataviewField(task, rest, "project")
        m == FirstMatch(rest, "projectTag", "emoji")
    IN  IF fmtName = "dataview" /\ dv.found THEN [task |-> dv.task, rest |-> dv.rest]
        ELSE IF m # 0 /\ rest[m].val # ""
        THEN [task |-> [task EXCEPT !.project = Some(rest[m].val)], rest |-> rest]
        ELSE [task |-> task, rest |-> rest]

extractContext(task, rest, fmtName) ==
    LET dv == DataviewField(task, rest, "context")
        m == FirstMatch(rest, "context", "emoji")
    IN  IF fmtName = "dataview" /\ dv.found THEN [task |-> dv.task, rest |-> dv.rest]
        ELSE IF m # 0 /\ rest[m].val # ""
        THEN [task |-> [task EXCEPT !.context = Some(rest[m].val)],
              rest |-> RemoveAt(rest, m)]
        ELSE [task |-> task, rest |-> rest]

\* the tags found by EMOJI_TAG_REGEX, in text order
TagMatches(rest) ==
    LET found == SelectSeq(rest, LAMBDA t : t.kind \in {"tag", "projectTag"})
    IN  [i \in 1..Len(found) |-> TagText(found[i])]

\* extractTags that keeps the "#project/" tags in the tag list whatever the
\* format is
extractTagsKeepingProjectTags(task, rest, fmtName) ==
    LET useDataview == fmtName = "dataview"
        remainingContent == IF useDataview
                            THEN SelectSeq(rest, LAMBDA t : t.fmt # "dv")
                            ELSE rest
        tagMatches == TagMatches(remainingContent)
        kept == SelectSeq(remainingContent,
                    LAMBDA t : ~(t.kind \in {"tag", "projectTag"} /\ t.val # ""
                                 /\ Includes(tagMatches, TagText(t))))
    IN  [task |-> [task EXCEPT !.tags = tagMatches],
         rest |-> SelectSeq(kept, LAMBDA t : ~(t.kind = "context" /\ t.fmt = "emoji"))]

\* extractTags(task, content, format) on a content without links
extractTags(task, rest, fmtName) ==
    LET useDataview == fmtName = "dataview"
        \* ANY_DATAVIEW_FIELD_REGEX removed
        remainingContent == IF useDataview
                            THEN SelectSeq(rest, LAMBDA t : t.fmt # "dv")
                            ELSE rest
        tagMatches == TagMatches(remainingContent)
        projectTags == SelectSeq(tagMatches, StartsWithProjectPrefix)
        project == IF ~useDataview /\ ~TruthyString(task.project)
                      /\ Len(projectTags) > 0
                   THEN Some(projectTags[1][2])
                   ELSE task.project
        tags == IF useDataview
                THEN SelectSeq(tagMatches, LAMBDA tag : ~StartsWithProjectPrefix(tag))
                ELSE tagMatches
        \* every occurrence of a tag of task.tags removed from the content
        contentWithoutTagsOrContext ==
            SelectSeq(remainingContent,
                LAMBDA t : ~(t.kind \in {"tag", "projectTag"} /\ t.val # ""
                             /\ Includes(tags, TagText(t))))
        \* the remaining @context tokens removed
        finalContent ==
            SelectSeq(contentWithoutTagsOrContext,
                LAMBDA t : ~(t.kind = "context" /\ t.fmt = "emoji"))
    IN  [task |-> [task EXCEPT !.tags = tags, !.project = project],
         rest |-> finalContent]

\* basename of the path without ".md"; a path is [folder, name]
BaseName(filePath) == filePath.name

\* extractAmbientProperties: cache is TRUE when fileCache.tags holds "#project"
extractAmbientProperties(task, cache) ==
    IF cache THEN [task EXCEPT !.project = Some(BaseName(task.filePath))]
    ELSE task

\* status.toLowerCase()
ToLowerCase(status) == IF status = "X" THEN "x" ELSE status

\* the task object of line i (0-based) as it is created (lines 459-479)
NewTask(filePath, line, i) ==
    [ id |-> <<filePath, i>>,
      content |-> line.tokens,
      filePath |-> filePath,
      line |-> i,
      completed |-> ToLowerCase(line.status) = "x",
      status |-> line.status,
      originalMarkdown |-> line,
      tags |-> <<>>,
      children |-> <<>>,
      parent |-> Undefined,
      priority |-> Undefined,
      startDate |-> Undefined,
      dueDate |-> Undefined,
      scheduledDate |-> Undefined,
      completedDate |-> Undefined,
      createdDate |-> Undefined,
      recurrence |-> Undefined,
      project |-> Undefined,
      context |-> Undefined,
      useAsDateType |-> Undefined ]

\* the task of line i (0-based) before the hierarchy is built (lines 453-497)
ParseLine(filePath, line, i, fmtName, cache) ==
    LET task == NewTask(filePath, line, i)
        dates == extractDates(task, line.tokens, fmtName)
        recurrence == extractRecurrence(dates.task, dates.rest, fmtName)
        priority == extractPriority(recurrence.task, recurrence.rest, fmtName)
        project == extractProject(priority.task, priority.rest, fmtName)
        context == extractContext(project.task, project.rest, fmtName)
        tags == extractTags(context.task, context.rest, fmtName)
    IN  extractAmbientProperties([tags.task EXCEPT !.content = tags.rest], cache)

\* getIndentLevel(line): the length of the leading whitespace
getIndentLevel(line) == line.indentation

\* the positions of keys in the stable ascending order of the keys
RECURSIVE SortPositions(_)
SortPositions(keys) ==
    IF Len(keys) < 2 THEN [i \in 1..Len(keys) |-> i]
    ELSE LET n == Len(keys)
             front == SortPositions(SubSeq(keys, 1, n - 1))
             before == SelectSeq(front, LAMBDA p : keys[p] <= keys[n])
             after == SelectSeq(front, LAMBDA p : keys[p] > keys[n])
         IN  before \o <<n>> \o after

\* arr.sort((a, b) => key(a) - key(b)), keys[i] being the key of arr[i]
SortByKey(arr, keys) == [i \in 1..Len(arr) |-> arr[SortPositions(keys)[i]]]

\* while (taskStack.length > 0 && top.indent >= currentIndent) taskStack.pop()
RECURSIVE PopTaskStack(_, _)
PopTaskStack(taskStack, currentIndent) ==
    IF Len(taskStack) > 0 /\ taskStack[Len(taskStack)].indent >= currentIndent
    THEN PopTaskStack(SubSeq(taskStack, 1, Len(taskStack) - 1), currentIndent)
    ELSE taskStack

\* the loop body that pops only the entries of greater indentation, so that
\* a task of equal indentation becomes the parent
HierarchyStepEqualIndentNests(arr, k, taskStack) ==
    LET currentIndent == getIndentLevel(arr[k].originalMarkdown)
        kept == SelectSeq(taskStack, LAMBDA e : e.indent <= currentIndent)
        p == IF Len(kept) > 0 THEN kept[Len(kept)].task ELSE 0
        linked == IF p = 0 THEN arr
                  ELSE [arr EXCEPT ![k].parent = Some(arr[p].id),
                                   ![p].children = Append(@, arr[k].id)]
    IN  [tasks |-> linked,
         taskStack |-> Append(kept, [task |-> k, indent |-> currentIndent])]

\* the loop body that sets the parent link and leaves the child list alone
HierarchyStepNoChildPush(arr, k, taskStack) ==
    LET currentIndent == getIndentLevel(arr[k].originalMarkdown)
        kept == PopTaskStack(taskStack, currentIndent)
        p == IF Len(kept) > 0 THEN kept[Len(kept)].task ELSE 0
        linked == IF p = 0 THEN arr
                  ELSE [arr EXCEPT ![k].parent = Some(arr[p].id)]
    IN  [tasks |-> linked,
         taskStack |-> Append(kept, [task |-> k, indent |-> currentIndent])]

\* one pass of the loop of buildTaskHierarchy for tasks[k]; the stack holds
\* the positions of the candidate ancestors with their indentation
HierarchyStep(arr, k, taskStack) ==
    LET currentIndent == getIndentLevel(arr[k].originalMarkdown)
        kept == PopTaskStack(taskStack, currentIndent)
        p == IF Len(kept) > 0 THEN kept[Len(kept)].task ELSE 0
        linked == IF p = 0 THEN arr
                  ELSE [arr EXCEPT ![k].parent = Some(arr[p].id),
                                   ![p].children = Append(@, arr[k].id)]
    IN  [tasks |-> linked,
         taskStack |-> Append(kept, [task |-> k, indent |-> currentIndent])]

RECURSIVE HierarchyWalk(_, _, _)
HierarchyWalk(arr, k, taskStack) ==
    IF k > Len(arr) THEN arr
    ELSE LET step == HierarchyStep(arr, k, taskStack)
         IN  HierarchyWalk(step.tasks, k + 1, step.taskStack)

buildTaskHierarchy(arr) ==
    HierarchyWalk(SortByKey(arr, [i \in 1..Len(arr) |-> arr[i].line]), 1, <<>>)

\* parseTasksFromContent(filePath, content, format, fileCache)
parseTasksFromContent(filePath, fileLines, fmtName, cache) ==
    LET taskLines == SelectSeq([i \in 1..Len(fileLines) |-> i],
                               LAMBDA i : fileLines[i].isTask)
    IN  buildTaskHierarchy(
            [k \in 1..Len(taskLines) |->
                ParseLine(filePath, fileLines[taskLines[k]], taskLines[k] - 1,
                          fmtName, cache)])

---------------------------------------------------------------------------
(* Specification SpecHier: the hierarchy builders. Either the worker's     *)
(* parseTasksFromContent runs on a drawn file (pc "content"), or           *)
(* parseTasksForSorting runs on a drawn block (pc "document").             *)

\* longest file / block drawn for the hierarchy builders
MaxHierLines == 4

Indentations == {0, 2, 4}

\* the path of the file whose content is parsed
FilePathOfContent == [folder |-> "notes", name |-> "a"]

\* a line TASK_REGEX does not match
NoTaskLine == [isTask |-> FALSE, indentation |-> 0, status |-> "", tokens |-> <<>>]

\* lines of a file that differ in their indentation only
HierFileLines ==
    {NoTaskLine} \cup
    { [isTask |-> TRUE, indentation |-> n, status |-> " ", tokens |-> <<>>] :
        n \in Indentations }

HierBlockLines ==
    {NonTaskLine} \cup
    { [isTask |-> TRUE, indentation |-> n, status |-> " ", completed |-> FALSE,
       priority |-> Undefined, dueDate |-> Undefined, startDate |-> Undefined,
       scheduledDate |-> Undefined, content |-> Undefined] : n \in Indentations }

InitHier ==
    /\ AppIdle
    /\ settings = DefaultSettings
    /\ statusOrder = EmptyOrder
    /\ criteria = <<>>
    /\ CompareIdle
    /\ today = 1
    /\ tasks = <<>>
    /\ sorted = <<>>
    /\ sortedBefore = <<>>
    /\ blocks = <<>>
    /\ format = "tasks"
    /\ fileCache = FALSE
    /\ indexed = <<>>
    /\ inbox = <<>>
    /\ handled = <<>>
    /\ outbox = <<>>
    /\ \/ /\ pc = "content"
          /\ content \in SeqsUpTo(HierFileLines, MaxHierLines)
          /\ lines = <<>>
       \/ /\ pc = "document"
          /\ lines \in SeqsUpTo(HierBlockLines, MaxHierLines)
          /\ content = <<>>

ParseTasksFromContent ==
    /\ UNCHANGED appVars
    /\ pc = "content"
    /\ indexed' = parseTasksFromContent(FilePathOfContent, content, format, fileCache)
    /\ pc' = "indexed"
    /\ UNCHANGED <<settings, statusOrder, criteria, taskA, taskB, taskC, cmp,
                   lines, today, tasks, sorted, sortedBefore, blocks, content,
                   format, fileCache, inbox, handled, outbox>>

NextHier == ParseTasksFromContent \/ ParseTasksForSorting

SpecHier == InitHier /\ [][NextHier]_vars

\* the nearest preceding task line of strictly smaller indentation, 0 if none
NearestOutdented(ls, i) ==
    LET cands == {j \in 1..(i - 1) : ls[j].isTask
                                     /\ ls[j].indentation < ls[i].indentation}
    IN  IF cands = {} THEN 0 ELSE CHOOSE j \in cands : \A h \in cands : h <= j

\* the task lines whose nearest outdented task line is p, in line order
OutdentedBy(ls, p) ==
    SelectSeq([i \in 1..Len(ls) |-> i],
              LAMBDA i : ls[i].isTask /\ NearestOutdented(ls, i) = p)

\* the id the worker gives to the task of line i (1-based position)
IdOfLine(i) == <<FilePathOfContent, i - 1>>

\* a forest of SortableTasks is the one of the nearest outdented lines
RECURSIVE ForestOfNearest(_, _, _)
ForestOfNearest(arr, ls, p) ==
    LET expected == OutdentedBy(ls, p)
    IN  /\ Len(arr) = Len(expected)
        /\ \A k \in DOMAIN arr :
              /\ arr[k].lineNumber = Some(expected[k] - 1)
              /\ arr[k].parent = IF p = 0 THEN Undefined ELSE Some(p - 1)
              /\ ForestOfNearest(arr[k].children, ls, expected[k])

\* C11: each record's parent is the nearest preceding record with strictly
\* smaller indentation, a record without one is a root; roots are in line
\* order and every child list is in line order.
C11_NearestOutdentedParent ==
    /\ pc = "indexed" =>
          LET taskLines == SelectSeq([i \in 1..Len(content) |-> i],
                                     LAMBDA i : content[i].isTask)
          IN  /\ Len(indexed) = Len(taskLines)
              /\ \A k \in DOMAIN indexed :
                    LET i == taskLines[k]
                        p == NearestOutdented(content, i)
                        kids == OutdentedBy(content, i)
                    IN  /\ indexed[k].id = IdOfLine(i)
                        /\ indexed[k].parent =
                              IF p = 0 THEN Undefined ELSE Some(IdOfLine(p))
                        /\ indexed[k].children =
                              [c \in 1..Len(kids) |-> IdOfLine(kids[c])]
    /\ pc = "parsed" => ForestOfNearest(tasks, lines, 0)

\* indentations 0, 2, 2, 0: two roots, the first with the two indented
\* lines as children, the second childless
C11_Witness ==
    \/ /\ pc = "indexed"
       /\ Len(content) = 4
       /\ \A i \in 1..4 : content[i].isTask
       /\ [i \in 1..4 |-> content[i].indentation] = <<0, 2, 2, 0>>
       /\ [k \in 1..4 |-> indexed[k].parent] =
             <<Undefined, Some(IdOfLine(1)), Some(IdOfLine(1)), Undefined>>
       /\ indexed[1].children = <<IdOfLine(2), IdOfLine(3)>>
       /\ indexed[4].children = <<>>
    \/ /\ pc = "parsed"
       /\ Len(lines) = 4
       /\ \A i \in 1..4 : lines[i].isTask
       /\ [i \in 1..4 |-> lines[i].indentation] = <<0, 2, 2, 0>>
       /\ Len(tasks) = 2
       /\ Len(tasks[1].children) = 2
       /\ Len(tasks[2].children) = 0

\* the position in arr of the task whose id is the parent link of arr[k],
\* 0 when no task has that id
ParentPosition(arr, k) ==
    LET named == {j \in DOMAIN arr : Some(arr[j].id) = arr[k].parent}
    IN  IF named = {} THEN 0 ELSE CHOOSE j \in named : TRUE

\* following the parent links from arr[k] ends within n steps
RECURSIVE ReachesRoot(_, _, _)
ReachesRoot(arr, k, n) ==
    IF ~IsDefined(arr[k].parent) THEN TRUE
    ELSE IF n = 0 \/ ParentPosition(arr, k) = 0 THEN FALSE
    ELSE ReachesRoot(arr, ParentPosition(arr, k), n - 1)

\* the places of all child lists that hold the id
ChildListPlaces(arr, id) ==
    {pl \in (DOMAIN arr) \X (1..Len(arr)) :
        pl[2] \in DOMAIN arr[pl[1]].children /\ arr[pl[1]].children[pl[2]] = id}

\* the tasks of a forest, parents before their children
RECURSIVE FlattenForest(_)
FlattenForest(arr) ==
    IF arr = <<>> THEN <<>>
    ELSE <<Head(arr)>> \o FlattenForest(Head(arr).children) \o FlattenForest(Tail(arr))

\* C12: after hierarchy building the parent/child links are acyclic, every
\* record is in exactly one child list or is a root, a record is in a child
\* list iff its parent link names the owner of the list, and every child is
\* on a later line than its parent.
C12_LinksConsistent ==
    /\ pc = "indexed" =>
          /\ \A k \in DOMAIN indexed :
                /\ ReachesRoot(indexed, k, Len(indexed))
                /\ Cardinality(ChildListPlaces(indexed, indexed[k].id)) =
                      IF IsDefined(indexed[k].parent) THEN 1 ELSE 0
                /\ IsDefined(indexed[k].parent) =>
                      /\ ParentPosition(indexed, k) # 0
                      /\ indexed[k].line > indexed[ParentPosition(indexed, k)].line
          /\ \A p \in DOMAIN indexed : \A k \in DOMAIN indexed :
                Includes(indexed[p].children, indexed[k].id)
                    <=> indexed[k].parent = Some(indexed[p].id)
    /\ pc = "parsed" =>
          LET all == FlattenForest(tasks)
              taskLines == {i \in DOMAIN lines : lines[i].isTask}
          IN  /\ Len(all) = Cardinality(taskLines)
              /\ {Val(all[k].lineNumber) + 1 : k \in DOMAIN all} = taskLines
              /\ \A k \in DOMAIN tasks : tasks[k].parent = Undefined
              /\ \A k \in DOMAIN all : \A c \in DOMAIN all[k].children :
                    /\ all[k].children[c].parent = all[k].lineNumber
                    /\ Val(all[k].children[c].lineNumber) > Val(all[k].lineNumber)

\* a grandchild: a linked task whose parent is itself linked to a parent
C12_Witness ==
    /\ pc = "indexed"
    /\ \E k \in DOMAIN indexed :
          /\ IsDefined(indexed[k].parent)
          /\ ParentPosition(indexed, k) # 0
          /\ IsDefined(indexed[ParentPosition(indexed, k)].parent)
          /\ Includes(indexed[ParentPosition(indexed, k)].children, indexed[k].id)

---------------------------------------------------------------------------
(* findContinuousTaskBlocks (forecastStore.ts) and the specification       *)
(* SpecBlocks, which calls it on a drawn array of SortableTasks            *)

\* getMaxLineNumberWithChildren that returns the task's own line
getMaxLineNumberIgnoringChildren(task) == Val(task.lineNumber)

RECURSIVE getMaxLineNumberWithChildren(_)
getMaxLineNumberWithChildren(task) ==
    IF Len(task.children) = 0 THEN Val(task.lineNumber)
    ELSE LET childMax == [c \in 1..Len(task.children) |->
                             getMaxLineNumberWithChildren(task.children[c])]
             highest == CHOOSE x \in Range(childMax) : \A y \in Range(childMax) : y <= x
         IN  IF highest > Val(task.lineNumber) THEN highest ELSE Val(task.lineNumber)

\* the loop over sortedTasks[i], i = 1 .. length - 1 (here positions 2 ..)
RECURSIVE BlockWalk(_, _, _, _)
BlockWalk(sortedTasks, i, done, currentBlock) ==
    IF i > Len(sortedTasks) THEN Append(done, currentBlock)
    ELSE LET prevTask == sortedTasks[i - 1]
             currentTask == sortedTasks[i]
             prevMaxLine == getMaxLineNumberWithChildren(prevTask)
         IN  IF Val(currentTask.lineNumber) <= prevMaxLine + 1
             THEN BlockWalk(sortedTasks, i + 1, done, Append(currentBlock, currentTask))
             ELSE BlockWalk(sortedTasks, i + 1, Append(done, currentBlock),
                            <<currentTask>>)

findContinuousTaskBlocks(arr) ==
    IF Len(arr) = 0 THEN <<>>
    ELSE LET sortedTasks ==
                 SortByKey(arr, [i \in 1..Len(arr) |-> Val(arr[i].lineNumber)])
         IN  BlockWalk(sortedTasks, 2, <<>>, <<sortedTasks[1]>>)

\* most tasks handed to findContinuousTaskBlocks
MaxBlockTasks == 4

\* the line numbers of the tasks of the array
BlockTaskLines == {3, 4, 6, 10}

\* a SortableTask on a line with the given children
BlockTask(lineNumber, parentLine, kids) ==
    [ originalMarkdown |-> lineNumber + 1,
      status |-> Some(" "),
      completed |-> Some(FALSE),
      content |-> Undefined,
      priority |-> Undefined,
      dueDate |-> Undefined,
      startDate |-> Undefined,
      scheduledDate |-> Undefined,
      lineNumber |-> Some(lineNumber),
      indentation |-> 0,
      parent |-> parentLine,
      children |-> kids,
      calculatedStatus |-> Some(" ") ]

\* a task of the array on line n: childless, with a child two lines below,
\* or with a child on the next line that has a child of its own
BlockTasksOn(n) ==
    { BlockTask(n, Undefined, <<>>),
      BlockTask(n, Undefined, <<BlockTask(n + 2, Some(n), <<>>)>>),
      BlockTask(n, Undefined,
          <<BlockTask(n + 1, Some(n), <<BlockTask(n + 2, Some(n + 1), <<>>)>>)>>) }

BlockTaskArrays ==
    { arr \in SeqsUpTo(UNION {BlockTasksOn(n) : n \in BlockTaskLines}, MaxBlockTasks) :
        \* no two tasks of the forest are on the same line
        LET all == FlattenForest(arr)
        IN  \A i \in DOMAIN all : \A j \in DOMAIN all :
                i # j => all[i].lineNumber # all[j].lineNumber }

InitBlocks ==
    /\ AppIdle
    /\ pc = "tasks"
    /\ settings = DefaultSettings
    /\ statusOrder = EmptyOrder
    /\ criteria = <<>>
    /\ CompareIdle
    /\ lines = <<>>
    /\ today = 1
    /\ tasks \in BlockTaskArrays
    /\ sorted = <<>>
    /\ sortedBefore = <<>>
    /\ WorkerIdle

FindContinuousTaskBlocks ==
    /\ UNCHANGED appVars
    /\ pc = "tasks"
    /\ blocks' = findContinuousTaskBlocks(tasks)
    /\ pc' = "blocks"
    /\ UNCHANGED <<settings, statusOrder, criteria, taskA, taskB, taskC, cmp,
                   lines, today, tasks, sorted, sortedBefore, content, format,
                   fileCache, indexed, inbox, handled, outbox>>

NextBlocks == FindContinuousTaskBlocks

SpecBlocks == InitBlocks /\ [][NextBlocks]_vars

\* the greatest line number among a task and all its descendants
MaxLineOf(task) ==
    LET own == {Val(t.lineNumber) : t \in AllTasks(<<task>>)}
    IN  CHOOSE x \in own : \A y \in own : y <= x

\* the block that holds position i of the concatenation of the blocks
BlockOfPosition(bs, i) ==
    CHOOSE b \in DOMAIN bs :
        LET before == Len(Flatten(SubSeq(bs, 1, b - 1)))
        IN  before < i /\ i <= before + Len(bs[b])

\* C13: the records are taken in ascending line order, and a record is in the
\* block of the record before it iff its line number is at most one greater
\* than the greatest line number of that record and its descendants;
\* otherwise it starts a new block.
C13_BlockRule ==
    pc = "blocks" =>
        LET flat == Flatten(blocks)
        IN  /\ Len(flat) = Len(tasks)
            /\ Range(flat) = Range(tasks)
            /\ \A b \in DOMAIN blocks : Len(blocks[b]) > 0
            /\ \A i \in 1..(Len(flat) - 1) :
                  /\ Val(flat[i].lineNumber) < Val(flat[i + 1].lineNumber)
                  /\ (BlockOfPosition(blocks, i + 1) = BlockOfPosition(blocks, i))
                        <=> (Val(flat[i + 1].lineNumber) <= MaxLineOf(flat[i]) + 1)
                  /\ BlockOfPosition(blocks, i + 1) \in
                        {BlockOfPosition(blocks, i), BlockOfPosition(blocks, i) + 1}

\* the task on line 6 joins the block of the task on line 3 only through the
\* child of that task on line 5, and the task on line 10 starts a new block
C13_Witness ==
    /\ pc = "blocks"
    /\ [i \in DOMAIN tasks |-> Val(tasks[i].lineNumber)] = <<10, 6, 3>>
    /\ Len(blocks) = 2
    /\ [i \in DOMAIN blocks[1] |-> Val(blocks[1][i].lineNumber)] = <<3, 6>>
    /\ [i \in DOMAIN blocks[2] |-> Val(blocks[2][i].lineNumber)] = <<10>>

\* the records at lines 3, 4, 6 and 10, the one at line 3 with a child at
\* line 5
IsBlockExample(arr) ==
    /\ {Val(arr[i].lineNumber) : i \in DOMAIN arr} = {3, 4, 6, 10}
    /\ \A i \in DOMAIN arr :
          [c \in DOMAIN arr[i].children |-> Val(arr[i].children[c].lineNumber)] =
              IF Val(arr[i].lineNumber) = 3 THEN <<5>> ELSE <<>>
    /\ \A t \in AllTasks(arr) : Val(t.lineNumber) = 5 => t.children = <<>>

\* C14: for records at lines 3, 4 and 6, the one at line 3 with a child at
\* line 5, and a record at line 10, block grouping yields exactly two blocks:
\* the records at lines 3, 4, 6 and the record at line 10.
C14_ExampleTwoBlocks ==
    (pc = "blocks" /\ IsBlockExample(tasks)) =>
        [b \in DOMAIN blocks |->
            [i \in DOMAIN blocks[b] |-> Val(blocks[b][i].lineNumber)]]
        = << <<3, 4, 6>>, <<10>> >>

---------------------------------------------------------------------------
(* Specification SpecExtract: parseTasksFromContent on a file of one task  *)
(* line, drawn with its status marker and its metadata annotations, under  *)
(* either metadata format                                                  *)

\* most tokens on the task line
MaxTokens == 3

Token(kind, fmt, val) == [kind |-> kind, fmt |-> fmt, val |-> val]

\* the annotations drawn: per field the dataview and the emoji form, a date
\* that is none, a priority name, number and unknown word, and plain tags
LineTokens ==
    { Token("word", "", "text"),
      Token("dueDate", "dv", "2024-01-01"),
      Token("dueDate", "emoji", "2024-01-02"),
      Token("dueDate", "dv", "someday"),
      Token("startDate", "emoji", "2024-01-01"),
      Token("recurrence", "dv", "every day"),
      Token("recurrence", "emoji", "every week"),
      Token("priority", "dv", "high"),
      Token("priority", "dv", "3"),
      Token("priority", "dv", "soon"),
      Token("priority", "emoji", "emoji-low"),
      Token("project", "dv", "alpha"),
      Token("projectTag", "emoji", "beta"),
      Token("context", "dv", "home"),
      Token("context", "emoji", "work"),
      Token("tag", "emoji", "urgent") }

StatusMarkers == {" ", "x", "X", "d", "-"}

\* the default settings with a third completed marker, "d"
ThreeCompletedSettings ==
    [DefaultSettings EXCEPT !.taskStatuses =
        Some(<< [type |-> "completed", marks |-> <<"x", "X", "d">>],
                [type |-> "inProgress", marks |-> <<">", "/">>],
                [type |-> "abandoned", marks |-> <<"-">>],
                [type |-> "planned", marks |-> <<"?">>],
                [type |-> "notStarted", marks |-> <<" ">>] >>)]

TaskLine(indentation, status, tokens) ==
    [isTask |-> TRUE, indentation |-> indentation, status |-> status,
     tokens |-> tokens]

InitExtract ==
    /\ AppIdle
    /\ pc = "content"
    /\ statusOrder = EmptyOrder
    /\ criteria = <<>>
    /\ CompareIdle
    /\ lines = <<>>
    /\ today = 1
    /\ tasks = <<>>
    /\ sorted = <<>>
    /\ sortedBefore = <<>>
    /\ blocks = <<>>
    /\ indexed = <<>>
    /\ inbox = <<>>
    /\ handled = <<>>
    /\ outbox = <<>>
    /\ format \in {"tasks", "dataview"}
    /\ \/ /\ settings = DefaultSettings
          /\ fileCache \in BOOLEAN
          /\ \E tokens \in SeqsUpTo(LineTokens, MaxTokens) :
                content = <<TaskLine(0, " ", tokens)>>
       \/ /\ settings \in {DefaultSettings, ThreeCompletedSettings}
          /\ fileCache = FALSE
          /\ \E status \in StatusMarkers :
                content = <<TaskLine(0, status, <<Token("word", "", "text")>>)>>

NextExtract == ParseTasksFromContent

SpecExtract == InitExtract /\ [][NextExtract]_vars

\* C18: the completed flag of every parsed task is true iff the task's raw
\* status marker is one of the configured completed markers.
C18_CompletedIffConfiguredMarker ==
    pc = "indexed" =>
        \A k \in DOMAIN indexed :
            indexed[k].completed <=> IsCompletedMark(settings, indexed[k].status)

\* the tokens of the line the task k of indexed was parsed from
TokensOf(k) == indexed[k].originalMarkdown.tokens

\* the project of task k is the one named by the "#project/" tag token
DerivedFromProjectTag(k, token) ==
    /\ token.kind = "projectTag"
    /\ indexed[k].project = Some(token.val)
    /\ ~fileCache
    /\ \A i \in DOMAIN TokensOf(k) :
          TokensOf(k)[i].kind = "project" => TokensOf(k)[i].val # token.val

ProjectTagNotInTags(k) ==
    \A i \in DOMAIN TokensOf(k) :
        DerivedFromProjectTag(k, TokensOf(k)[i])
            => ~Includes(indexed[k].tags, TagText(TokensOf(k)[i]))

\* C19 (as claimed): in either metadata format, once the project was derived
\* from a "#project/"-prefixed tag that tag is no element of the tag set.
C19_ProjectTagNotInTags ==
    pc = "indexed" => \A k \in DOMAIN indexed : ProjectTagNotInTags(k)

\* C19 (amended): with the dataview format active, once the project was
\* derived from a "#project/"-prefixed tag that tag is no element of the tag
\* set.
C19_ProjectTagNotInTagsDataview ==
    (pc = "indexed" /\ format = "dataview") =>
        \A k \in DOMAIN indexed : ProjectTagNotInTags(k)

\* dataview format, the project taken from the tag for want of a dataview
\* project field, another tag kept in the tag set
C19_Witness ==
    /\ pc = "indexed"
    /\ format = "dataview"
    /\ Len(indexed) = 1
    /\ \E i \in DOMAIN TokensOf(1) : DerivedFromProjectTag(1, TokensOf(1)[i])
    /\ indexed[1].tags = << <<"#", "urgent">> >>

\* the value an annotation token gives to its field
AnnotationValue(token) ==
    IF token.kind \in Range(WorkerDateFields) THEN parseLocalDate(token.val)
    ELSE IF token.kind = "priority"
    THEN (IF IsDefined(PRIORITY_MAP(token.val)) THEN PRIORITY_MAP(token.val)
          ELSE IF token.fmt = "dv" THEN ParseInt(token.val) ELSE Undefined)
    ELSE Some(token.val)

\* the token kind of a field's annotation in a format
AnnotationKind(field, fmt) ==
    IF field = "project" /\ fmt = "emoji" THEN "projectTag" ELSE field

Occurrences(seq, x) == Cardinality({i \in DOMAIN seq : seq[i] = x})

ExtractedFields ==
    Range(WorkerDateFields) \cup {"recurrence", "priority", "project", "context"}

\* C20: every field extractor tries the active format's pattern first and,
\* when it is absent, the other format's pattern; the match sets the field
\* and is removed from the text. With the emoji format active a line that
\* carries only the dataview annotation of a field still gets the field.
C20_FallbackEitherWay ==
    pc = "indexed" =>
        \A k \in DOMAIN indexed : \A field \in ExtractedFields :
            LET active == IF format = "dataview" THEN "dv" ELSE "emoji"
                other == OtherFormat(active)
                a == FirstMatch(TokensOf(k), AnnotationKind(field, active), active)
                o == FirstMatch(TokensOf(k), AnnotationKind(field, other), other)
            IN  (a = 0 /\ o # 0 /\ IsDefined(AnnotationValue(TokensOf(k)[o]))
                 /\ ~(field = "project" /\ fileCache))
                    => /\ indexed[k][field] = AnnotationValue(TokensOf(k)[o])
                       /\ Occurrences(indexed[k].content, TokensOf(k)[o])
                             < Occurrences(TokensOf(k), TokensOf(k)[o])

---------------------------------------------------------------------------
(* processFile, processBatch and the message handler of the worker.        *)
(* A file content is Some(lines), or Undefined when the message carried no *)
(* string (content.split then throws). A call that may throw returns       *)
(* [threw, error] or [threw, value].                                       *)

Threw(error) == [threw |-> TRUE, error |-> error]
Returned(value) == [threw |-> FALSE, value |-> value]

\* const settings = message.settings || { ... } (lines 718-724)
DefaultWorkerSettings ==
    [preferMetadataFormat |-> "tasks", useDailyNotePathAsDate |-> FALSE,
     dailyNoteFormat |-> "yyyy-MM-dd", useAsDateType |-> "due",
     dailyNotePath |-> ""]

\* extractDateFromPath: the date the file name spells in dailyNoteFormat
extractDateFromPath(filePath, workerSettings) ==
    IF ~workerSettings.useDailyNotePathAsDate THEN Undefined
    ELSE parseLocalDate(filePath.name)

\* the daily-note block that gives the date of the path to every task,
\* whatever its fields hold
ApplyDateFromPathOverwriting(task, dateFromPath, workerSettings) ==
    LET kind == workerSettings.useAsDateType
        field == IF kind = "due" THEN "dueDate"
                 ELSE IF kind = "start" THEN "startDate" ELSE "scheduledDate"
    IN  IF ~IsDefined(dateFromPath) \/ Val(dateFromPath) = 0 THEN task
        ELSE [task EXCEPT ![field] = dateFromPath, !.useAsDateType = Some(kind)]

\* the date of the path given to one task (lines 620-636)
ApplyDateFromPath(task, dateFromPath, workerSettings) ==
    LET kind == workerSettings.useAsDateType
        field == IF kind = "due" THEN "dueDate"
                 ELSE IF kind = "start" THEN "startDate" ELSE "scheduledDate"
        falsy == ~IsDefined(task[field]) \/ Val(task[field]) = 0
    IN  IF ~IsDefined(dateFromPath) \/ Val(dateFromPath) = 0 THEN task
        ELSE [(IF falsy THEN [task EXCEPT ![field] = dateFromPath] ELSE task)
                 EXCEPT !.useAsDateType = Some(kind)]

\* filePath.startsWith(dailyNotePath) && dailyNotePath && useDailyNotePathAsDate
InDailyNotePath(filePath, workerSettings) ==
    /\ workerSettings.dailyNotePath # ""
    /\ filePath.folder = workerSettings.dailyNotePath
    /\ workerSettings.useDailyNotePathAsDate

\* parse(pathToMatch, dailyNoteFormat, new Date()) of date-fns throws a
\* RangeError for a format with an unescaped letter that is no pattern
\* letter, as the "n" of the format "n" (line 532)
FormatThrows(dailyNoteFormat) == dailyNoteFormat = "n"

\* the date inference ends in its catch (lines 638-640): the first task's
\* call of extractDateFromPath throws before any task is changed
InferenceThrows(parsed, workerSettings) ==
    Len(parsed) > 0 /\ FormatThrows(workerSettings.dailyNoteFormat)

processFile(filePath, fileContent, workerSettings, cache) ==
    IF ~IsDefined(fileContent) THEN Threw("TypeError")
    ELSE With(parseTasksFromContent(filePath, Val(fileContent),
                                    workerSettings.preferMetadataFormat, cache),
              LAMBDA parsed :
         With(IF /\ InDailyNotePath(filePath, workerSettings)
                 /\ ~InferenceThrows(parsed, workerSettings)
              THEN [k \in 1..Len(parsed) |->
                       ApplyDateFromPath(parsed[k],
                           extractDateFromPath(filePath, workerSettings),
                           workerSettings)]
              ELSE parsed,
              LAMBDA dated :
         Returned([type |-> "parseResult",
                   filePath |-> filePath,
                   tasks |-> dated,
                   stats |-> [totalTasks |-> Len(dated),
                              completedTasks |->
                                  Len(SelectSeq(parsed, LAMBDA t : t.completed))]])))

\* the loop body of processBatch that lets the failure of a file end the loop
BatchStepAbortOnFailure(acc, file, workerSettings) ==
    With(processFile(file.path, file.content, workerSettings, file.metadata),
         LAMBDA parseResult :
            IF acc.failedFiles > 0 \/ parseResult.threw
            THEN [acc EXCEPT !.failedFiles = @ + 1]
            ELSE [acc EXCEPT
                    !.totalTasks = @ + parseResult.value.stats.totalTasks,
                    !.results = Append(@,
                        [filePath |-> parseResult.value.filePath,
                         taskCount |-> parseResult.value.stats.totalTasks])])

\* the loop body of processBatch: try { processFile ... } catch { failedFiles++ }
BatchStep(acc, file, workerSettings) ==
    With(processFile(file.path, file.content, workerSettings, file.metadata),
         LAMBDA parseResult :
            IF parseResult.threw
            THEN [acc EXCEPT !.failedFiles = @ + 1]
            ELSE [acc EXCEPT
                    !.totalTasks = @ + parseResult.value.stats.totalTasks,
                    !.results = Append(@,
                        [filePath |-> parseResult.value.filePath,
                         taskCount |-> parseResult.value.stats.totalTasks])])

RECURSIVE BatchWalk(_, _, _, _)
BatchWalk(acc, files, i, workerSettings) ==
    IF i > Len(files) THEN acc
    ELSE BatchWalk(BatchStep(acc, files[i], workerSettings), files, i + 1,
                   workerSettings)

\* processBatch(files, settings); files is Undefined when the message has none
processBatch(files, workerSettings) ==
    IF ~IsDefined(files) THEN Threw("TypeError")
    ELSE With(BatchWalk([results |-> <<>>, totalTasks |-> 0, failedFiles |-> 0],
                        Val(files), 1, workerSettings),
              LAMBDA acc :
                 Returned([type |-> "batchResult",
                           results |-> acc.results,
                           stats |-> [totalFiles |-> Len(Val(files)),
                                      totalTasks |-> acc.totalTasks]]))

\* the settings of a message: message.settings || { ...defaults }
SettingsOf(message) ==
    IF IsDefined(message.settings) THEN Val(message.settings)
    ELSE DefaultWorkerSettings

\* the reply to a batchIndex command: the result of processBatch, or the
\* error of the outer catch (lines 764-769)
BatchReply(result) ==
    IF result.threw
    THEN <<[type |-> "error", error |-> result.error, filePath |-> Undefined]>>
    ELSE <<result.value>>

\* the handler that posts nothing when processFile throws
onmessageSilentOnFailure(message) ==
    IF ~message.isObject
    THEN <<[type |-> "error", error |-> "TypeError", filePath |-> Undefined]>>
    ELSE IF message.type = "parseTasks"
    THEN With(processFile(message.filePath, message.content,
                          SettingsOf(message), message.metadata),
              LAMBDA result : IF result.threw THEN <<>> ELSE <<result.value>>)
    ELSE IF message.type = "batchIndex"
    THEN BatchReply(processBatch(message.files, SettingsOf(message)))
    ELSE <<[type |-> "error", error |-> "Unknown command type",
            filePath |-> Undefined]>>

\* self.onmessage: the messages it posts for one message, in the order of the
\* postMessage calls; a message that is no object is [isObject |-> FALSE]
onmessage(message) ==
    IF ~message.isObject
    \* message.settings throws; the outer catch posts the error (lines 764-769)
    THEN <<[type |-> "error", error |-> "TypeError", filePath |-> Undefined]>>
    ELSE IF message.type = "parseTasks"
    THEN With(processFile(message.filePath, message.content,
                          SettingsOf(message), message.metadata),
              LAMBDA result :
                 IF result.threw
                 THEN <<[type |-> "error", error |-> result.error,
                         filePath |-> Some(message.filePath)]>>
                 ELSE <<result.value>>)
    ELSE IF message.type = "batchIndex"
    THEN BatchReply(processBatch(message.files, SettingsOf(message)))
    ELSE <<[type |-> "error", error |-> "Unknown command type",
            filePath |-> Undefined]>>

---------------------------------------------------------------------------
(* Specifications SpecBatch and SpecWorker: messages delivered to the      *)
(* worker are handled one at a time, oldest first. An entry of outbox      *)
(* records the message posted and during which handler run (the n-th       *)
(* message handled) it was posted.                                         *)

\* most files in a batch
MaxBatchFiles == 3
\* most messages delivered to the worker
MaxCommands == 2

FileNames == <<"a", "2024-01-01", "c", "d", "e", "f">>

PathOfFile(i) == [folder |-> "notes", name |-> FileNames[i]]

WorkerFileContents ==
    { Undefined,
      Some(<<>>),
      Some(<<TaskLine(0, " ", <<>>)>>),
      Some(<<TaskLine(0, "x", <<>>),
             TaskLine(2, " ", <<Token("dueDate", "emoji", "2024-01-02")>>)>>) }

DailyNoteSettings ==
    [preferMetadataFormat |-> "dataview", useDailyNotePathAsDate |-> TRUE,
     dailyNoteFormat |-> "yyyy-MM-dd", useAsDateType |-> "due",
     dailyNotePath |-> "notes"]

\* the files of a batch: the i-th file has the i-th path
BatchFiles(n) ==
    { [i \in 1..Len(cs) |->
          [path |-> PathOfFile(i), content |-> cs[i], metadata |-> FALSE]] :
        cs \in SeqsUpTo(WorkerFileContents, n) }

BatchCommand(files, workerSettings) ==
    [isObject |-> TRUE, type |-> "batchIndex", files |-> files,
     settings |-> workerSettings]

ParseCommand(filePath, fileContent, workerSettings, cache) ==
    [isObject |-> TRUE, type |-> "parseTasks", filePath |-> filePath,
     content |-> fileContent, settings |-> workerSettings, metadata |-> cache]

IdleButWorker ==
    /\ pc = "worker"
    /\ settings = DefaultSettings
    /\ statusOrder = EmptyOrder
    /\ criteria = <<>>
    /\ CompareIdle
    /\ lines = <<>>
    /\ today = 1
    /\ tasks = <<>>
    /\ sorted = <<>>
    /\ sortedBefore = <<>>
    /\ blocks = <<>>
    /\ content = <<>>
    /\ format = "tasks"
    /\ fileCache = FALSE
    /\ indexed = <<>>
    /\ handled = <<>>
    /\ outbox = <<>>

InitBatch ==
    /\ AppIdle
    /\ IdleButWorker
    /\ \E files \in BatchFiles(MaxBatchFiles) :
       \E s \in {Undefined, Some(DailyNoteSettings)} :
          inbox = <<BatchCommand(Some(files), s)>>

\* the event loop hands the oldest message delivered to the handler
TakeMessage == inbox # <<>> /\ inbox' = Tail(inbox)

OnMessage ==
    /\ UNCHANGED appVars
    /\ TakeMessage
    /\ handled' = Append(handled, Head(inbox))
    /\ outbox' = outbox \o With(onmessage(Head(inbox)), LAMBDA posted :
                               [i \in 1..Len(posted) |->
                                   [during |-> Len(handled) + 1,
                                    message |-> posted[i]]])
    /\ UNCHANGED <<pc, settings, statusOrder, criteria, taskA, taskB, taskC, cmp,
                   lines, today, tasks, sorted, sortedBefore, blocks, content,
                   format, fileCache, indexed>>

NextWorker == OnMessage

SpecBatch == InitBatch /\ [][NextWorker]_vars

\* the files of a batch that processFile does not fail on
FilesThatParse(files) == SelectSeq(files, LAMBDA f : IsDefined(f.content))

\* C16: a failing file never aborts the batch: the batch returns a
\* batchResult whose results hold exactly one entry for each file that did
\* not fail, in submission order.
C16_BatchIsolation ==
    Len(handled) = 1 =>
        LET parsing == FilesThatParse(Val(handled[1].files))
        IN  /\ Len(outbox) = 1
            /\ outbox[1].message.type = "batchResult"
            /\ outbox[1].message.results =
                  [i \in 1..Len(parsing) |->
                      [filePath |-> parsing[i].path,
                       taskCount |-> Len(SelectSeq(Val(parsing[i].content),
                                                   LAMBDA l : l.isTask))]]
            /\ outbox[1].message.stats.totalFiles = Len(Val(handled[1].files))

\* three files, the second without a string content: entries for the first
\* and the third
C16_Witness ==
    /\ Len(handled) = 1
    /\ Len(Val(handled[1].files)) = 3
    /\ [i \in 1..3 |-> IsDefined(Val(handled[1].files)[i].content)]
          = <<TRUE, FALSE, TRUE>>
    /\ [i \in DOMAIN outbox[1].message.results |->
           outbox[1].message.results[i].filePath] = <<PathOfFile(1), PathOfFile(3)>>

\* the messages delivered in SpecWorker: parseTasks commands, batchIndex
\* commands with and without a files array, a command of another type and a
\* message that is no object
WorkerCommands ==
    { ParseCommand(PathOfFile(2), c, s, FALSE) :
        c \in WorkerFileContents, s \in {Undefined, Some(DailyNoteSettings)} }
    \cup { BatchCommand(Some(files), Undefined) : files \in BatchFiles(1) }
    \cup { BatchCommand(Undefined, Undefined),
           [isObject |-> TRUE, type |-> "cancel", settings |-> Undefined],
           [isObject |-> FALSE] }

InitWorker ==
    /\ AppIdle
    /\ IdleButWorker
    /\ inbox \in SeqsUpTo(WorkerCommands, MaxCommands)

\* the handler runs for every message delivered: the event loop calls it and
\* it returns. OnMessage is the only action and is enabled exactly when a
\* message can be taken, so fairness of taking a message is fairness of
\* OnMessage.
SpecWorker == InitWorker /\ [][NextWorker]_vars /\ WF_inbox(TakeMessage)

\* the messages posted during the n-th run of the handler
RepliesTo(n) == SelectSeq(outbox, LAMBDA r : r.during = n)

\* the reply to the n-th message handled is the one its command calls for
ReplyFits(n) ==
    LET command == handled[n]
        reply == RepliesTo(n)[1].message
    IN  /\ Len(RepliesTo(n)) = 1
        /\ IF command.isObject /\ command.type = "parseTasks"
           THEN \/ reply.type = "parseResult" /\ reply.filePath = command.filePath
                \/ reply.type = "error" /\ reply.filePath = Some(command.filePath)
           ELSE IF command.isObject /\ command.type = "batchIndex"
           THEN reply.type \in {"batchResult", "error"}
           ELSE reply.type = "error"

\* C17: for every command delivered to the worker the worker eventually
\* posts exactly one reply: a parseResult for the file or an error carrying
\* the file path for parseTasks, a single batchResult or an error for
\* batchIndex, an error for any other command.
C17_OneReplyPerCommand ==
    /\ [](/\ \A n \in DOMAIN handled : ReplyFits(n)
          /\ \A i \in DOMAIN outbox : outbox[i].during \in DOMAIN handled)
    /\ \A n \in 1..MaxCommands :
          (Len(handled) + Len(inbox) >= n) ~> (Len(handled) >= n /\ ReplyFits(n))

\* a parseTasks command that failed and a batchIndex command, each answered
C17_Witness ==
    /\ Len(handled) = 2
    /\ inbox = <<>>
    /\ handled[1].isObject /\ handled[1].type = "parseTasks"
    /\ outbox[1].message.type = "error"
    /\ handled[2].isObject /\ handled[2].type = "batchIndex"
    /\ outbox[2].message.type = "batchResult"
    /\ Len(outbox) = 2

---------------------------------------------------------------------------
(* Specification SpecFields: extractDates and extractPriority, each called *)
(* on the text of one drawn task line under either metadata format. The    *)
(* two results, each the task and the remaining content, are kept in       *)
(* indexed.                                                                *)

\* annotations whose value may not be interpretable
FieldTokens ==
    { Token("word", "", "text"),
      Token("dueDate", "dv", "2024-01-01"),
      Token("dueDate", "dv", "someday"),
      Token("dueDate", "emoji", "2024-01-02"),
      Token("dueDate", "emoji", "2024-13-45"),
      Token("startDate", "emoji", "2024-13-45"),
      Token("priority", "dv", "high"),
      Token("priority", "dv", "3"),
      Token("priority", "dv", "2nd"),
      Token("priority", "dv", "soon"),
      Token("priority", "emoji", "emoji-low"),
      Token("priority", "emoji", "emoji-other") }

InitFields ==
    /\ AppIdle
    /\ pc = "line"
    /\ settings = DefaultSettings
    /\ statusOrder = EmptyOrder
    /\ criteria = <<>>
    /\ CompareIdle
    /\ lines = <<>>
    /\ today = 1
    /\ tasks = <<>>
    /\ sorted = <<>>
    /\ sortedBefore = <<>>
    /\ blocks = <<>>
    /\ fileCache = FALSE
    /\ indexed = <<>>
    /\ inbox = <<>>
    /\ handled = <<>>
    /\ outbox = <<>>
    /\ format \in {"tasks", "dataview"}
    /\ \E tokens \in SeqsUpTo(FieldTokens, MaxTokens) :
          content = <<TaskLine(0, " ", tokens)>>

ExtractFields ==
    /\ UNCHANGED appVars
    /\ pc = "line"
    /\ indexed' =
          <<[dates |-> extractDates(NewTask(FilePathOfContent, content[1], 0),
                                    content[1].tokens, format),
             priority |-> extractPriority(NewTask(FilePathOfContent, content[1], 0),
                                          content[1].tokens, format)]>>
    /\ pc' = "extracted"
    /\ UNCHANGED <<settings, statusOrder, criteria, taskA, taskB, taskC, cmp,
                   lines, today, tasks, sorted, sortedBefore, blocks, content,
                   format, fileCache, inbox, handled, outbox>>

NextFields == ExtractFields

SpecFields == InitFields /\ [][NextFields]_vars

\* the first match of a field's pattern in a format is there and its value
\* cannot be interpreted
Uninterpretable(tokens, field, fmt) ==
    /\ FirstMatch(tokens, field, fmt) # 0
    /\ ~IsDefined(AnnotationValue(tokens[FirstMatch(tokens, field, fmt)]))

\* the first match of a field's pattern in a format is absent or cannot be
\* interpreted
NoUsableMatch(tokens, field, fmt) ==
    FirstMatch(tokens, field, fmt) = 0 \/ Uninterpretable(tokens, field, fmt)

\* the text is a literal integer
IsIntegerText(text) == text \in {"1", "3"}

\* a date annotation that fails to parse leaves its field unset and stays in
\* the remaining content
DateIsNoMatch(tokens, result, field) ==
    (/\ \E fmt \in {"dv", "emoji"} : Uninterpretable(tokens, field, fmt)
     /\ \A fmt \in {"dv", "emoji"} : NoUsableMatch(tokens, field, fmt))
        => /\ result.task[field] = Undefined
           /\ \A i \in DOMAIN tokens :
                 tokens[i].kind = field
                    => Occurrences(result.rest, tokens[i]) = Occurrences(tokens, tokens[i])

\* the priority patterns tried under the format: the dataview one only when
\* dataview is the format, the emoji one always
PriorityFormats == IF format = "dataview" THEN {"dv", "emoji"} ELSE {"emoji"}

\* a priority capture that is neither a known name nor an integer
PriorityCaptureUnknown(tokens, fmt) ==
    /\ FirstMatch(tokens, "priority", fmt) # 0
    /\ LET val == tokens[FirstMatch(tokens, "priority", fmt)].val
       IN  ~IsDefined(PRIORITY_MAP(val)) /\ ~(fmt = "dv" /\ IsIntegerText(val))

PriorityIsNoMatch(tokens, result) ==
    (/\ \E fmt \in PriorityFormats : PriorityCaptureUnknown(tokens, fmt)
     /\ \A fmt \in PriorityFormats :
           \/ FirstMatch(tokens, "priority", fmt) = 0
           \/ PriorityCaptureUnknown(tokens, fmt))
        => /\ result.task.priority = Undefined
           /\ result.rest = tokens

\* C21: a matched span whose value cannot be interpreted is treated as no
\* match: a date string that fails to parse leaves the date field unset and
\* the matched text in the remaining content, and a priority capture that is
\* neither a known symbolic name nor an integer leaves the priority unset and
\* the text unstripped.
C21_UninterpretableIsNoMatch ==
    pc = "extracted" =>
        /\ \A field \in Range(WorkerDateFields) :
              DateIsNoMatch(content[1].tokens, indexed[1].dates, field)
        /\ PriorityIsNoMatch(content[1].tokens, indexed[1].priority)

---------------------------------------------------------------------------
(* The text of a task line, character by character.                        *)
(*                                                                         *)
(* Links, "@" tokens and "#" tokens are found by the regular expressions   *)
(* of extractProject, extractContext and extractTags, which work on the    *)
(* characters of the text. Here a text is a sequence of characters, a      *)
(* position is an index into it (from 1), and a span is [start, end): end  *)
(* is the position after its last character. The texts drawn hold words,   *)
(* links, "@" tokens and "#" tokens and none of the date, recurrence and   *)
(* priority markers and no dataview field, so that the patterns of         *)
(* common/regex-define for those find no match in them.                    *)

\* the characters of the texts that are not word characters (\w)
NonWordChars == {" ", "#", "@", "[", "]", "|", "(", ")", "/", "-", ":"}

\* the characters that end a run of [\w-] and of [\w/-]
ContextStops == NonWordChars \ {"-"}
TagStops == NonWordChars \ {"/", "-"}

\* the position after the longest run from i of characters not in stops
RunOutside(text, i, stops) ==
    LET ends == {j \in i..(Len(text) + 1) : j = Len(text) + 1 \/ text[j] \in stops}
    IN  CHOOSE j \in ends : \A k \in ends : j <= k

\* text.startsWith(pattern, i)
StartsWithAt(text, i, pattern) ==
    /\ i + Len(pattern) - 1 <= Len(text)
    /\ SubSeq(text, i, i + Len(pattern) - 1) = pattern

\* text.indexOf(pattern), 0 when it does not occur
IndexOf(text, pattern) ==
    LET hits == {i \in 1..(Len(text) + 1) : StartsWithAt(text, i, pattern)}
    IN  IF hits = {} THEN 0 ELSE CHOOSE i \in hits : \A k \in hits : i <= k

\* text.substring(from, to) for from <= to, both clamped to the text
Substring(text, from, to) ==
    SubSeq(text, IF from > Len(text) + 1 THEN Len(text) + 1 ELSE from,
                 (IF to > Len(text) + 1 THEN Len(text) + 1 ELSE to) - 1)

\* text.trim()
RECURSIVE Trim(_)
Trim(text) ==
    IF text = <<>> THEN text
    ELSE IF Head(text) = " " THEN Trim(Tail(text))
    ELSE IF text[Len(text)] = " " THEN Trim(SubSeq(text, 1, Len(text) - 1))
    ELSE text

\* a content that keeps its runs of white space
KeepSpaces(text) == text

\* text.replace(/\s{2,}/g, " ")
RECURSIVE CollapseSpaces(_)
CollapseSpaces(text) ==
    IF Len(text) < 2 THEN text
    ELSE IF text[1] = " " /\ text[2] = " " THEN CollapseSpaces(Tail(text))
    ELSE <<Head(text)>> \o CollapseSpaces(Tail(text))

\* The end of the match of a pattern that begins at position i, 0 when the
\* pattern does not match there:
\*   "wiki"       /\[\[([^\]]+)\]\]/                        (line 247)
\*   "aliasWiki"  /\[\[(?!.+?:)([^\]\[]+)\|([^\]\[]+)\]\]/   (line 296)
\*   "inline"     /\[([^\[\]]*)\]\((.*?)\)/                 (line 297)
\*   "tag"        EMOJI_TAG_REGEX, a "#" and a run of [\w/-]
\*   "context"    EMOJI_CONTEXT_REGEX and /@[\w-]+/ (line 417)
MatchAt(pattern, text, i) ==
    IF pattern = "wiki"
    THEN LET j == RunOutside(text, i + 2, {"]"})
         IN  IF /\ StartsWithAt(text, i, <<"[", "[">>)
                /\ j > i + 2
                /\ StartsWithAt(text, j, <<"]", "]">>)
             THEN j + 2 ELSE 0
    ELSE IF pattern = "aliasWiki"
    THEN LET j == RunOutside(text, i + 2, {"[", "]"})
         IN  IF /\ StartsWithAt(text, i, <<"[", "[">>)
                /\ \A k \in (i + 3)..Len(text) : text[k] # ":"
                /\ \E p \in (i + 3)..(j - 2) : text[p] = "|"
                /\ StartsWithAt(text, j, <<"]", "]">>)
             THEN j + 2 ELSE 0
    ELSE IF pattern = "inline"
    THEN LET j == RunOutside(text, i + 1, {"[", "]"})
             k == RunOutside(text, j + 2, {")"})
         IN  IF /\ text[i] = "["
                /\ StartsWithAt(text, j, <<"]", "(">>)
                /\ k <= Len(text)
             THEN k + 1 ELSE 0
    ELSE IF pattern = "tag"
    THEN LET j == RunOutside(text, i + 1, TagStops)
         IN  IF text[i] = "#" /\ j > i + 1 THEN j ELSE 0
    ELSE LET j == RunOutside(text, i + 1, ContextStops)
         IN  IF text[i] = "@" /\ j > i + 1 THEN j ELSE 0

\* the spans of the matches of a global pattern from position i on, in text
\* order (regex.exec in a loop, text.match with the g flag)
RECURSIVE AllMatches(_, _, _)
AllMatches(pattern, text, i) ==
    IF i > Len(text) THEN <<>>
    ELSE With(MatchAt(pattern, text, i), LAMBDA end :
            IF end # 0
            THEN <<[start |-> i, end |-> end]>> \o AllMatches(pattern, text, end)
            ELSE AllMatches(pattern, text, i + 1))

\* the text of a span
TextOf(text, span) == SubSeq(text, span.start, span.end - 1)

\* the text without a span
Without(text, span) ==
    SubSeq(text, 1, span.start - 1) \o SubSeq(text, span.end, Len(text))

\* text.replace(pattern, "") for a global pattern, from position i on
RECURSIVE RemoveMatches(_, _, _)
RemoveMatches(pattern, text, i) ==
    IF i > Len(text) THEN <<>>
    ELSE With(MatchAt(pattern, text, i), LAMBDA end :
            IF end # 0 THEN RemoveMatches(pattern, text, end)
            ELSE <<text[i]>> \o RemoveMatches(pattern, text, i + 1))

\* text.replace(/@[\w-]+/g, "")
RemoveContexts(text) == RemoveMatches("context", text, 1)

\* extractProject on a text without dataview project field: the
\* "#project/" tag sets the project and stays in the text (lines 215-223)
ProjectPrefixChars == <<"#", "p", "r", "o", "j", "e", "c", "t", "/">>

extractProjectInText(task, text) ==
    With({i \in 1..Len(text) :
             /\ StartsWithAt(text, i, ProjectPrefixChars)
             /\ RunOutside(text, i + 9, TagStops) > i + 9},
         LAMBDA hits :
            IF hits = {} THEN task
            ELSE With(CHOOSE i \in hits : \A k \in hits : i <= k, LAMBDA i :
                    [task EXCEPT !.project =
                        Some(SubSeq(text, i + 9,
                                    RunOutside(text, i + 9, TagStops) - 1))]))

\* extractContext on a text without dataview context field (lines 244-276)
extractContextInText(task, text) ==
    With(AllMatches("wiki", text, 1), LAMBDA wikiLinkMatches :
    With(AllMatches("context", text, 1), LAMBDA contextMatches :
        IF contextMatches = <<>> THEN [task |-> task, rest |-> text]
        ELSE With(contextMatches[1], LAMBDA contextMatch :
                IF \E l \in DOMAIN wikiLinkMatches :
                      With(TextOf(text, wikiLinkMatches[l]), LAMBDA link :
                      With(IndexOf(text, link), LAMBDA linkStart :
                          /\ contextMatch.start >= linkStart
                          /\ contextMatch.start < linkStart + Len(link)))
                THEN [task |-> task, rest |-> text]
                ELSE [task |-> [task EXCEPT !.context =
                                   Some(SubSeq(text, contextMatch.start + 1,
                                               contextMatch.end - 1))],
                      rest |-> Without(text, contextMatch)])))

\* the tag occurs at position i and is followed by whitespace or by the end
\* of the text: TAG(?=\s|$)
TagHere(text, i, tag) ==
    /\ StartsWithAt(text, i, tag)
    /\ i + Len(tag) > Len(text) \/ text[i + Len(tag)] = " "

\* text.replace(new RegExp("\\s?" + escapedTag + "(?=\\s|$)", "g"), "")
RECURSIVE RemoveTag(_, _, _)
RemoveTag(text, tag, i) ==
    IF i > Len(text) THEN <<>>
    ELSE IF text[i] = " " /\ TagHere(text, i + 1, tag)
    THEN RemoveTag(text, tag, i + 1 + Len(tag))
    ELSE IF TagHere(text, i, tag)
    THEN RemoveTag(text, tag, i + Len(tag))
    ELSE <<text[i]>> \o RemoveTag(text, tag, i + 1)

\* for (const tag of task.tags) content = content.replace(tagRegex, "")
RECURSIVE RemoveTags(_, _, _)
RemoveTags(text, tagList, k) ==
    IF k > Len(tagList) THEN text
    ELSE RemoveTags(RemoveTag(text, tagList[k], 1), tagList, k + 1)

\* the links of extractTags: the wiki links with an alias, then the inline
\* links that overlap none of them, sorted by their start (lines 302-331)
LinksOf(text) ==
    With(AllMatches("aliasWiki", text, 1), LAMBDA wikiLinks :
    With(wikiLinks \o
            SelectSeq(AllMatches("inline", text, 1),
                LAMBDA m : ~\E l \in DOMAIN wikiLinks :
                    (IF wikiLinks[l].start > m.start THEN wikiLinks[l].start
                     ELSE m.start)
                       < (IF wikiLinks[l].end < m.end THEN wikiLinks[l].end
                          ELSE m.end)),
         LAMBDA found :
            SortByKey(found, [l \in 1..Len(found) |-> found[l].start])))

\* the text with every link replaced by as many spaces (lines 334-347)
MaskLinks(text, links) ==
    [i \in 1..Len(text) |->
        IF \E l \in DOMAIN links : links[l].start <= i /\ i < links[l].end
        THEN " " ELSE text[i]]

\* the final content put together from the segments between the links, the
\* links being cut out of processedContent at the positions they have in
\* original (lines 412-424)
RECURSIVE RebuildAroundLinks(_, _, _, _, _)
RebuildAroundLinks(processedContent, original, links, k, lastIndex) ==
    IF k > Len(links)
    THEN Trim(RemoveContexts(Substring(processedContent, lastIndex,
                                       Len(processedContent) + 1)))
    ELSE Trim(RemoveContexts(Substring(processedContent, lastIndex,
                                       links[k].start)))
            \o TextOf(original, links[k])
            \o RebuildAroundLinks(processedContent, original, links, k + 1,
                                  links[k].end)

\* tag.startsWith(EMOJI_PROJECT_PREFIX) for a tag given by its characters
IsProjectTagText(tag) == StartsWithAt(tag, 1, ProjectPrefixChars)

\* extractTags on a text without dataview field (lines 295-433)
extractTagsInText(task, text, fmtName) ==
    With(LinksOf(text), LAMBDA links :
    With(MaskLinks(text, links), LAMBDA masked :
    With(With(AllMatches("tag", masked, 1), LAMBDA found :
             [k \in 1..Len(found) |-> TextOf(masked, found[k])]),
         LAMBDA tagMatches :
    With(IF fmtName = "dataview"
         THEN SelectSeq(tagMatches, LAMBDA tag : ~IsProjectTagText(tag))
         ELSE tagMatches,
         LAMBDA tags :
    With(RemoveTags(text, tags, 1), LAMBDA contentWithoutTagsOrContext :
    With(SelectSeq(tagMatches, IsProjectTagText), LAMBDA projectTags :
        [task |-> [task EXCEPT
                      !.tags = tags,
                      !.project =
                          IF /\ fmtName # "dataview"
                             /\ task.project \in {Undefined, Some(<<>>)}
                             /\ projectTags # <<>>
                          THEN Some(SubSeq(projectTags[1], 10, Len(projectTags[1])))
                          ELSE task.project],
         rest |-> Trim(CollapseSpaces(
                     IF links # <<>>
                     THEN RebuildAroundLinks(contentWithoutTagsOrContext, text,
                                             links, 1, 1)
                     ELSE Trim(RemoveContexts(contentWithoutTagsOrContext))))]))))))

\* the task of a line whose text after the checkbox is text: the extractors
\* in their order, the first three finding no match (lines 481-494)
ParseText(text, fmtName) ==
    With(extractContextInText(
             extractProjectInText(
                 [NewTask(FilePathOfContent, TaskLine(0, " ", <<>>), 0)
                     EXCEPT !.content = Trim(text)],
                 text),
             text),
         LAMBDA context :
    With(extractTagsInText(context.task, context.rest, fmtName), LAMBDA tags :
        [tags.task EXCEPT !.content = Trim(CollapseSpaces(tags.rest))]))

---------------------------------------------------------------------------
(* Specification SpecText: the text of one task line is put together from  *)
(* pieces separated by one space each (an empty piece gives two spaces in  *)
(* a row, or a space at an end), and the line is parsed under either       *)
(* metadata format. content holds the pieces, indexed the task.            *)

\* most pieces of a text
MaxPieces == 3

WordVisit == <<"V", "i", "s", "i", "t">>
WordMilk == <<"m", "i", "l", "k">>
ContextHome == <<"@", "h", "o", "m", "e">>
ContextWork == <<"@", "w", "o", "r", "k">>
TagUrgent == <<"#", "u", "r", "g", "e", "n", "t">>
\* [[Project#project]]
WikiLinkWithTag ==
    <<"[", "[", "P", "r", "o", "j", "e", "c", "t", "#", "p", "r", "o", "j",
      "e", "c", "t", "]", "]">>
\* [[a@b]]
WikiLinkWithContext == <<"[", "[", "a", "@", "b", "]", "]">>
\* [[a@b|c]]
AliasLinkWithContext == <<"[", "[", "a", "@", "b", "|", "c", "]", "]">>
\* [[n #u x]]
WikiLinkWithSpacedTag == <<"[", "[", "n", " ", "#", "u", " ", "x", "]", "]">>
\* [[a#u|c]]
AliasLinkWithTag == <<"[", "[", "a", "#", "u", "|", "c", "]", "]">>
\* [t#u](x)
InlineLinkWithTag == <<"[", "t", "#", "u", "]", "(", "x", ")">>

WordPieces == {WordVisit, WordMilk, <<>>}
ContextPieces == {ContextHome, ContextWork}
TagPieces == {TagUrgent}
LinkPieces ==
    {WikiLinkWithTag, WikiLinkWithSpacedTag, WikiLinkWithContext,
     AliasLinkWithContext, AliasLinkWithTag, InlineLinkWithTag}

TextPieces == WordPieces \cup ContextPieces \cup TagPieces \cup LinkPieces

\* the line of the tag/link example: Visit [[Project#project]] @home #urgent
ExamplePieces == <<WordVisit, WikiLinkWithTag, ContextHome, TagUrgent>>

\* pieces.join(" ")
RECURSIVE JoinPieces(_)
JoinPieces(pieces) ==
    IF pieces = <<>> THEN <<>>
    ELSE IF Len(pieces) = 1 THEN pieces[1]
    ELSE pieces[1] \o <<" ">> \o JoinPieces(Tail(pieces))

InitText ==
    /\ AppIdle
    /\ pc = "text"
    /\ settings = DefaultSettings
    /\ statusOrder = EmptyOrder
    /\ criteria = <<>>
    /\ CompareIdle
    /\ lines = <<>>
    /\ today = 1
    /\ tasks = <<>>
    /\ sorted = <<>>
    /\ sortedBefore = <<>>
    /\ blocks = <<>>
    /\ fileCache = FALSE
    /\ indexed = <<>>
    /\ inbox = <<>>
    /\ handled = <<>>
    /\ outbox = <<>>
    /\ format \in {"tasks", "dataview"}
    /\ content \in SeqsUpTo(TextPieces, MaxPieces) \cup {ExamplePieces}

ParseTaskText ==
    /\ UNCHANGED appVars
    /\ pc = "text"
    /\ indexed' = <<ParseText(JoinPieces(content), format)>>
    /\ pc' = "parsed"
    /\ UNCHANGED <<settings, statusOrder, criteria, taskA, taskB, taskC, cmp,
                   lines, today, tasks, sorted, sortedBefore, blocks, content,
                   format, fileCache, inbox, handled, outbox>>

NextText == ParseTaskText

SpecText == InitText /\ [][NextText]_vars

\* the "@" tokens of the line that lie outside every link, in text order
ContextsOutsideLinks == SelectSeq(content, LAMBDA piece : piece \in ContextPieces)

\* the pieces of the line that are links holding the character
LinksHolding(char) ==
    {content[i] : i \in {k \in DOMAIN content :
                            /\ content[k] \in LinkPieces
                            /\ \E c \in DOMAIN content[k] : content[k][c] = char}}

\* C22: in the emoji format the context is the first "@" token outside every
\* [[...]] link, also when an earlier "@" token lies inside a link, and the
\* "@" tokens inside link brackets are left in the text.
C22_ContextOutsideLinks ==
    (pc = "parsed" /\ format = "tasks") =>
        /\ indexed[1].context =
              IF ContextsOutsideLinks = <<>> THEN Undefined
              ELSE Some(Tail(ContextsOutsideLinks[1]))
        /\ \A link \in LinksHolding("@") : IndexOf(indexed[1].content, link) # 0

\* the "#" tokens of the line that lie outside every link, in text order
TagsOutsideLinks == SelectSeq(content, LAMBDA piece : piece \in TagPieces)

\* the "#" token inside a link
InnerTag(link) == TextOf(link, AllMatches("tag", link, 1)[1])

\* C23: a "#" token inside a wiki link or an inline link is never reported
\* as a tag and never removed from the content; the line
\* "Visit [[Project#project]] @home #urgent" in the emoji format yields the
\* tags #urgent, the context home, no project and the content
\* "Visit [[Project#project]]".
C23_NoTagInsideLinks ==
    pc = "parsed" =>
        /\ \A k \in DOMAIN indexed[1].tags :
              indexed[1].tags[k] \in Range(TagsOutsideLinks)
        /\ \A link \in LinksHolding("#") :
              IndexOf(indexed[1].content, InnerTag(link)) # 0
        /\ (content = ExamplePieces /\ format = "tasks") =>
              /\ indexed[1].tags = <<TagUrgent>>
              /\ indexed[1].context = Some(Tail(ContextHome))
              /\ indexed[1].project = Undefined
              /\ indexed[1].content = WordVisit \o <<" ">> \o WikiLinkWithTag

\* the line holds words and white space only, no metadata of any family
WordsOnly == \A k \in DOMAIN content : content[k] \in WordPieces

\* every metadata field of the task is unset and it has no tag
NoMetadata(task) ==
    /\ task.tags = <<>>
    /\ \A field \in {"priority", "startDate", "dueDate", "scheduledDate",
                      "completedDate", "createdDate", "recurrence", "project",
                      "context"} : task[field] = Undefined

\* C24 as stated: for a line without metadata every metadata field stays
\* unset, the tags are empty and the content is the text after the checkbox
\* with only the white space at its ends trimmed.
C24_NoMetadataOnlyTrimmed ==
    (pc = "parsed" /\ WordsOnly) =>
        /\ NoMetadata(indexed[1])
        /\ indexed[1].content = Trim(JoinPieces(content))

\* C24, amended: for a line without metadata every metadata field stays
\* unset, the tags are empty and the content is the text after the checkbox
\* with every run of white space collapsed to one space and the white space
\* at its ends trimmed; no other character is removed.
C24_NoMetadataCollapsed ==
    (pc = "parsed" /\ WordsOnly) =>
        /\ NoMetadata(indexed[1])
        /\ indexed[1].content = Trim(CollapseSpaces(JoinPieces(content)))
        /\ indexed[1].content =
              JoinPieces(SelectSeq(content, LAMBDA piece : piece # <<>>))

\* a line of two words with two spaces between them has been parsed
C24_Witness ==
    /\ pc = "parsed"
    /\ content = <<WordVisit, <<>>, WordMilk>>
    /\ indexed[1].content = WordVisit \o <<" ">> \o WordMilk
    /\ NoMetadata(indexed[1])

---------------------------------------------------------------------------
(* sortTasksInDocument (forecastStore.ts) and the specification            *)
(* SpecDocument, which runs the command on a drawn document.               *)
(* lines is the document; a line is modelled by what the parser makes of   *)
(* it, so two lines are the same text iff they are the same record.        *)
(* workspace holds what the command finds: the active file, its metadata   *)
(* cache, the sortTasks setting, the fullDocument argument and the cursor  *)
(* line. outcome holds the value the command returns, the Notice it shows, *)
(* and the block it has read.                                              *)

\* most lines of a document
MaxDocLines == 4

\* a heading line of level 1
HeadingLine == [isTask |-> FALSE, indentation |-> 0, heading |-> 1]

\* cache.headings: the 0-based lines of the headings of the document
HeadingsOf(doc) ==
    SelectSeq([i \in 1..Len(doc) |-> i - 1],
              LAMBDA l : "heading" \in DOMAIN doc[l + 1])

\* the first heading after headings[i] of the same or a lower level, the
\* number of lines of the document when there is none (lines 962-976)
RECURSIVE NextHeadingLine(_, _, _, _)
NextHeadingLine(doc, headings, i, j) ==
    IF j > Len(headings) THEN Len(doc)
    ELSE IF doc[headings[j] + 1].heading <= doc[headings[i] + 1].heading
    THEN headings[j]
    ELSE NextHeadingLine(doc, headings, i, j + 1)

\* startLine and endLine, 0-based (lines 951-999)
ScopeOf(doc, fullDocument, cursorLine) ==
    LET headings == HeadingsOf(doc)
        above == {i \in DOMAIN headings : headings[i] <= cursorLine}
    IN  IF fullDocument \/ above = {}
        THEN [startLine |-> 0, endLine |-> Len(doc) - 1]
        ELSE LET i == CHOOSE x \in above : \A y \in above : y <= x
                 endLine == NextHeadingLine(doc, headings, i, i + 1) - 1
             IN  [startLine |-> headings[i],
                  endLine |-> IF endLine < headings[i] THEN headings[i]
                              ELSE endLine]

\* task.lineNumber - startLine, when it is an index of the block's lines
RelativeIndex(task, startLine) == Val(task.lineNumber) - startLine

IsLineOfBlock(relativeIndex, originalBlockLines) ==
    relativeIndex >= 0 /\ relativeIndex < Len(originalBlockLines)

\* the indices of the set that a list of tasks gives (lines 1061-1067,
\* 1096-1102)
LineIndices(taskList, startLine, originalBlockLines) ==
    {RelativeIndex(taskList[k], startLine) : k \in
        {x \in DOMAIN taskList :
            IsLineOfBlock(RelativeIndex(taskList[x], startLine), originalBlockLines)}}

\* blockContent: addSortedTaskContent on every task of the block without
\* parent (lines 1089-1118), as the tasks whose originalMarkdown is pushed
BlockContent(block) ==
    FlattenForest(SelectSeq(block, LAMBDA task : task.parent = Undefined))

\* newBlockLines[currentLine++] = line for every line of blockContent
\* (lines 1121-1124); an index past the end lengthens the array
RECURSIVE WriteLines(_, _, _)
WriteLines(newBlockLines, currentLine, blockContent) ==
    IF blockContent = <<>> THEN newBlockLines
    ELSE WriteLines(
             IF currentLine + 1 <= Len(newBlockLines)
             THEN [newBlockLines EXCEPT ![currentLine + 1] = Head(blockContent)]
             ELSE Append(newBlockLines, Head(blockContent)),
             currentLine + 1, Tail(blockContent))

\* the loop over the task blocks (lines 1070-1125)
RECURSIVE RebuildBlocks(_, _, _, _, _)
RebuildBlocks(newBlockLines, taskBlocks, b, startLine, originalBlockLines) ==
    IF b > Len(taskBlocks) THEN newBlockLines
    ELSE LET indices == LineIndices(taskBlocks[b], startLine, originalBlockLines)
         IN  IF indices = {}
             THEN RebuildBlocks(newBlockLines, taskBlocks, b + 1, startLine,
                                originalBlockLines)
             ELSE LET minRelativeLineIndex ==
                          CHOOSE x \in indices : \A y \in indices : x <= y
                      written ==
                          [k \in DOMAIN BlockContent(taskBlocks[b]) |->
                              originalBlockLines[
                                  BlockContent(taskBlocks[b])[k].originalMarkdown]]
                  IN  RebuildBlocks(
                          WriteLines(newBlockLines, minRelativeLineIndex, written),
                          taskBlocks, b + 1, startLine, originalBlockLines)

\* finalLines: the lines that are no task line or are processed (lines
\* 1128-1133)
FinalLines(newBlockLines, taskLineIndices, processedLineIndices) ==
    LET kept == SelectSeq([i \in 1..Len(newBlockLines) |-> i],
                    LAMBDA i : \/ (i - 1) \notin taskLineIndices
                               \/ (i - 1) \in processedLineIndices)
    IN  [k \in 1..Len(kept) |-> newBlockLines[kept[k]]]

\* the lines of the rebuilt block (lines 1054-1133)
RebuildText(originalBlockLines, taskBlocks, startLine) ==
    FinalLines(
        RebuildBlocks(originalBlockLines, taskBlocks, 1, startLine,
                      originalBlockLines),
        LineIndices(Flatten(taskBlocks), startLine, originalBlockLines),
        LineIndices(Flatten([b \in DOMAIN taskBlocks |->
                                BlockContent(taskBlocks[b])]),
                    startLine, originalBlockLines))

\* what a call leaves behind: the value returned, null when returned is
\* undefined, the Notice shown, and the block of the document it has read
Outcome(returned, notice, startLine, block, taskBlocks) ==
    [returned |-> returned, notice |-> notice, startLine |-> startLine,
     block |-> block, taskBlocks |-> taskBlocks]

\* steps 1 to 5 on the block of the scope (lines 1001-1152)
SortBlock(doc, scope, crit, s, todayTimestamp) ==
    LET originalBlockLines == SubSeq(doc, scope.startLine + 1, scope.endLine + 1)
    IN  IF scope.startLine > scope.endLine
        THEN Outcome(Undefined, "Invalid range calculated", scope.startLine,
                     <<>>, <<>>)
        ELSE With(
            parseTasksForSorting(originalBlockLines, scope.startLine, todayTimestamp),
            LAMBDA blockTasks :
                IF Len(blockTasks) = 0
                THEN Outcome(Undefined, "No tasks found", scope.startLine,
                             originalBlockLines, <<>>)
                ELSE With(
                    With(findContinuousTaskBlocks(blockTasks),
                         LAMBDA found :
                             [b \in DOMAIN found |->
                                 sortTasksRecursively(found[b], crit, s)]),
                    LAMBDA taskBlocks :
                        With(
                            RebuildText(originalBlockLines, taskBlocks,
                                        scope.startLine),
                            LAMBDA finalLines :
                                IF finalLines = originalBlockLines
                                THEN Outcome(Undefined, "Tasks are already sorted",
                                             scope.startLine, originalBlockLines,
                                             taskBlocks)
                                ELSE Outcome(Some(finalLines), "Sorted tasks",
                                             scope.startLine, originalBlockLines,
                                             taskBlocks))))

\* sortTasksInDocument(view, plugin, fullDocument) (lines 916-1153)
sortTasksInDocument(doc, ws, crit, s, todayTimestamp) ==
    IF ~ws.activeFile
    THEN Outcome(Undefined, "No active file found", 0, <<>>, <<>>)
    ELSE IF ~ws.cache
    THEN Outcome(Undefined, "Metadata cache not available", 0, <<>>, <<>>)
    ELSE IF ~ws.sortTasks \/ Len(crit) = 0
    THEN Outcome(Undefined, "Task sorting is disabled or no sort criteria",
                 0, <<>>, <<>>)
    ELSE SortBlock(doc, ScopeOf(doc, ws.fullDocument, ws.cursorLine), crit, s,
                   todayTimestamp)

\* the lines of a document: a heading, a line of text, a task line
EditorLines ==
    {HeadingLine, NonTaskLine} \cup
    { [isTask |-> TRUE, indentation |-> n, status |-> " ", completed |-> FALSE,
       priority |-> p, dueDate |-> Undefined, startDate |-> Undefined,
       scheduledDate |-> Undefined, content |-> Undefined] :
        n \in {0, 2}, p \in {Undefined, Some(1)} }

\* the application as the command finds it: everything in place, or one thing
\* missing
Workspaces(doc) ==
    { [activeFile |-> a, cache |-> c, sortTasks |-> e, fullDocument |-> f,
       cursorLine |-> l] :
        a \in BOOLEAN, c \in BOOLEAN, e \in BOOLEAN, f \in BOOLEAN,
        l \in 0..(Len(doc) - 1) }

InitDocument ==
    /\ WorkerIdle
    /\ pc = "editor"
    /\ settings = DefaultSettings
    /\ statusOrder = EmptyOrder
    /\ criteria \in SortCriteriaLists
    /\ CompareIdle
    /\ lines \in SeqsUpTo(EditorLines, MaxDocLines) \ {<<>>}
    /\ today = 1
    /\ tasks = <<>>
    /\ sorted = <<>>
    /\ sortedBefore = <<>>
    /\ workspace \in
          { ws \in Workspaces(lines) :
              /\ Cardinality({field \in {"activeFile", "cache", "sortTasks"} :
                                 ~ws[field]}) <= 1
              /\ ws.fullDocument => ws.cursorLine = 0 }
    /\ outcome = <<>>
    /\ store = <<>>

SortTasksInDocument ==
    /\ pc = "editor"
    /\ outcome' = sortTasksInDocument(lines, workspace, criteria, settings, today)
    /\ pc' = "returned"
    /\ UNCHANGED <<settings, statusOrder, criteria, taskA, taskB, taskC, cmp,
                   lines, today, tasks, sorted, sortedBefore, workerVars,
                   workspace, store>>

NextDocument == SortTasksInDocument

SpecDocument == InitDocument /\ [][NextDocument]_vars

\* the block has been rewritten: the command has returned a new text
Rewritten == pc = "returned" /\ IsDefined(outcome.returned)

\* C25: when sortTasksInDocument returns a rewritten block, every non-task
\* line of the original block is in the output at the same line index with
\* the same text, and every task line of the output is the originalMarkdown
\* of a task of the block, also when a non-task line lies between a task and
\* one of its nested children.
C25_NonTaskLinesUntouched ==
    Rewritten =>
        /\ \A i \in DOMAIN outcome.block :
              ~outcome.block[i].isTask =>
                  /\ i \in DOMAIN Val(outcome.returned)
                  /\ Val(outcome.returned)[i] = outcome.block[i]
        /\ \A i \in DOMAIN Val(outcome.returned) :
              Val(outcome.returned)[i].isTask =>
                  \E task \in AllTasks(Flatten(outcome.taskBlocks)) :
                      Val(outcome.returned)[i] =
                          outcome.block[task.originalMarkdown]

\* C27: the text rebuilt by sortTasksInDocument has as many lines as the
\* original block and its lines are a permutation of the original lines: no
\* line is dropped, duplicated or overwritten by another line.
C27_LinesPermuted ==
    Rewritten =>
        /\ Len(Val(outcome.returned)) = Len(outcome.block)
        /\ \A line \in Range(outcome.block) \cup Range(Val(outcome.returned)) :
              Occurrences(Val(outcome.returned), line) =
                  Occurrences(outcome.block, line)

\* the conditions sortTasksInDocument shows a Notice for without sorting
HardErrors == {"No active file found", "Metadata cache not available",
               "Invalid range calculated"}
Informational == {"No tasks found", "Tasks are already sorted",
                  "Task sorting is disabled or no sort criteria"}

\* the same call with the file and its cache in place and sorting switched
\* off: an informational condition
SortingDisabledCall ==
    sortTasksInDocument(lines,
        [workspace EXCEPT !.activeFile = TRUE, !.cache = TRUE,
                          !.sortTasks = FALSE],
        criteria, settings, today)

\* C26: under the informational conditions and the hard errors
\* sortTasksInDocument returns no text to write to the document, and what it
\* returns for a hard error differs from what it returns for an
\* informational condition, so that a caller can tell them apart.
C26_HardErrorsDistinguished ==
    pc = "returned" =>
        /\ outcome.notice \in HardErrors \cup Informational =>
              ~IsDefined(outcome.returned)
        /\ outcome.notice \in HardErrors =>
              /\ SortingDisabledCall.notice \in Informational
              /\ outcome.returned # SortingDisabledCall.returned

---------------------------------------------------------------------------
(* Specification SpecDaily: one parseTasks command for a file of task      *)
(* lines with inline dates, under drawn daily-note settings; the worker    *)
(* answers it with the result of processFile.                              *)

\* most task lines of the file
MaxDailyLines == 2
\* most annotations of a task line
MaxDailyTokens == 2

DailyTokens ==
    { Token("dueDate", "emoji", "2024-01-02"),
      Token("dueDate", "emoji", "someday"),
      Token("startDate", "emoji", "2024-01-02"),
      Token("scheduledDate", "emoji", "2024-01-02") }

DailyPaths ==
    { [folder |-> "notes", name |-> "2024-01-01"],
      [folder |-> "notes", name |-> "a"],
      [folder |-> "other", name |-> "2024-01-01"] }

DailySettings ==
    { [preferMetadataFormat |-> "tasks", useDailyNotePathAsDate |-> use,
       dailyNoteFormat |-> fmt, useAsDateType |-> kind, dailyNotePath |-> path] :
        use \in BOOLEAN, fmt \in {"yyyy-MM-dd", "n"},
        kind \in {"due", "start", "scheduled"}, path \in {"notes", ""} }

InitDaily ==
    /\ AppIdle
    /\ IdleButWorker
    /\ \E filePath \in DailyPaths :
       \E annotations \in SeqsUpTo(SeqsUpTo(DailyTokens, MaxDailyTokens),
                                   MaxDailyLines) :
       \E s \in DailySettings :
          inbox = <<ParseCommand(filePath,
                        Some([i \in 1..Len(annotations) |->
                                 TaskLine(0, " ", annotations[i])]),
                        Some(s), FALSE)>>

SpecDaily == InitDaily /\ [][NextWorker]_vars

\* the command handled, its settings and the tasks of its file as
\* parseTasksFromContent returns them
DailyCommand == handled[1]
DailyParsed ==
    parseTasksFromContent(DailyCommand.filePath, Val(DailyCommand.content),
                          Val(DailyCommand.settings).preferMetadataFormat,
                          DailyCommand.metadata)

\* the date field useAsDateType selects
SelectedDateField(useAsDateType) ==
    IF useAsDateType = "due" THEN "dueDate"
    ELSE IF useAsDateType = "start" THEN "startDate"
    ELSE "scheduledDate"

\* the inference applies: the file lies in the daily-note folder, the
\* setting is on, and the name of the file spells a date
InferenceApplies ==
    /\ Val(DailyCommand.settings).useDailyNotePathAsDate
    /\ Val(DailyCommand.settings).dailyNotePath = DailyCommand.filePath.folder
    /\ DailyCommand.filePath.name = "2024-01-01"

C28_WitnessFailure ==
    /\ Len(handled) = 1
    /\ InferenceApplies
    /\ FormatThrows(Val(DailyCommand.settings).dailyNoteFormat)
    /\ Len(DailyParsed) > 0
    /\ outbox[1].message.type = "parseResult"

---------------------------------------------------------------------------
(* ForecastStore (forecastStore.ts) and the window focus handler of the    *)
(* forecast view (forecast.ts), and the specification SpecForecast.        *)
(* A point in time is a number of ticks, TicksPerDay of them to a day;     *)
(* store holds the fields of the ForecastStore, workspace the clock, and   *)
(* outcome the last operation with what it was given and what it found.    *)

\* ticks of the clock in a day
TicksPerDay == 2
\* the last tick of the clock
MaxNow == 5
\* most tasks of the store's list
MaxStoreTasks == 3

\* date.setHours(0, 0, 0, 0)
StartOfDay(time) == time - (time % TicksPerDay)

\* new Map(tasks.map(task => [task.id, task])): the last task of an id wins
MapOfTasks(taskList) ==
    [id \in {taskList[i].id : i \in DOMAIN taskList} |->
        taskList[CHOOSE i \in DOMAIN taskList :
                    /\ taskList[i].id = id
                    /\ \A j \in DOMAIN taskList : taskList[j].id = id => j <= i]]

\* tasks.findIndex(t => t.id === task.id), 0 for -1
FindIndex(taskList, id) ==
    IF \E i \in DOMAIN taskList : taskList[i].id = id
    THEN CHOOSE i \in DOMAIN taskList :
            /\ taskList[i].id = id
            /\ \A j \in DOMAIN taskList : taskList[j].id = id => i <= j
    ELSE 0

\* tasksMap.set(id, task)
MapSet(map, id, task) ==
    [k \in DOMAIN map \cup {id} |-> IF k = id THEN task ELSE map[k]]

\* new ForecastStore() at the time now (lines 22-27)
NewForecastStore(now) ==
    [tasks |-> <<>>, tasksMap |-> <<>>, currentDate |-> StartOfDay(now),
     selectedDate |-> StartOfDay(now)]

setTasks(st, taskList) ==
    [st EXCEPT !.tasks = taskList, !.tasksMap = MapOfTasks(taskList)]

\* updateTask that adds the task to the list whatever the list holds
updateTaskAppending(st, task) ==
    [st EXCEPT !.tasks = Append(@, task),
               !.tasksMap = MapSet(@, task.id, task)]

updateTask(st, task) ==
    LET index == FindIndex(st.tasks, task.id)
    IN  [st EXCEPT !.tasks = IF index # 0 THEN [@ EXCEPT ![index] = task]
                             ELSE Append(@, task),
                   !.tasksMap = MapSet(@, task.id, task)]

setSelectedDate(st, date) == [st EXCEPT !.selectedDate = StartOfDay(date)]

setCurrentDate(st, date) == [st EXCEPT !.currentDate = StartOfDay(date)]

\* store.dispatch(action): the setter of the action's type
dispatch(st, action) ==
    IF action.type = "UPDATE_CURRENT_DATE" THEN setCurrentDate(st, action.payload)
    ELSE IF action.type = "SELECT_DATE" THEN setSelectedDate(st, action.payload)
    ELSE IF action.type = "SET_TASKS" THEN setTasks(st, action.payload)
    ELSE IF action.type = "UPDATE_TASK" THEN updateTask(st, action.payload)
    ELSE st

\* the focus handler that moves the selected date whenever the day has changed
windowFocusHandlerAlwaysSelecting(st, now) ==
    IF st.currentDate # StartOfDay(now)
    THEN dispatch(dispatch(st, [type |-> "UPDATE_CURRENT_DATE",
                                payload |-> StartOfDay(now)]),
                  [type |-> "SELECT_DATE", payload |-> StartOfDay(now)])
    ELSE st

\* windowFocusHandler (forecast.ts, lines 92-133): the store it leaves
windowFocusHandler(st, now) ==
    LET newCurrentDate == StartOfDay(now)
        oldCurrentDate == StartOfDay(st.currentDate)
        updated == dispatch(st, [type |-> "UPDATE_CURRENT_DATE",
                                 payload |-> newCurrentDate])
        selectedDateTimestamp == StartOfDay(updated.selectedDate)
    IN  IF oldCurrentDate # newCurrentDate
        THEN IF /\ selectedDateTimestamp = oldCurrentDate
                /\ selectedDateTimestamp < newCurrentDate
             THEN dispatch(updated, [type |-> "SELECT_DATE",
                                     payload |-> newCurrentDate])
             ELSE updated
        ELSE st

\* the tasks handed to the store: two ids, each in two versions
StoreTasks == {[id |-> id, version |-> n] : id \in {"a", "b"}, n \in 1..2}

InitForecast ==
    /\ WorkerIdle
    /\ pc = "forecast"
    /\ settings = DefaultSettings
    /\ statusOrder = EmptyOrder
    /\ criteria = <<>>
    /\ CompareIdle
    /\ lines = <<>>
    /\ today = 0
    /\ tasks = <<>>
    /\ sorted = <<>>
    /\ sortedBefore = <<>>
    /\ workspace \in {[now |-> n] : n \in 0..1}
    /\ store = NewForecastStore(workspace.now)
    /\ outcome = [op |-> "new"]

ForecastFrame ==
    UNCHANGED <<pc, settings, statusOrder, criteria, taskA, taskB, taskC, cmp,
                lines, today, tasks, sorted, sortedBefore, workerVars>>

SetTasks ==
    /\ \E taskList \in SeqsUpTo(StoreTasks, MaxStoreTasks) :
          /\ store' = setTasks(store, taskList)
          /\ outcome' = [op |-> "setTasks", tasks |-> taskList]
    /\ UNCHANGED workspace
    /\ ForecastFrame

UpdateTask ==
    /\ \E task \in StoreTasks :
          /\ FindIndex(store.tasks, task.id) # 0 \/ Len(store.tasks) < MaxStoreTasks
          /\ store' = updateTask(store, task)
          /\ outcome' = [op |-> "updateTask", task |-> task, before |-> store.tasks]
    /\ UNCHANGED workspace
    /\ ForecastFrame

\* the user picks a day of the calendar (forecast.ts, lines 280-283)
SelectDate ==
    /\ \E date \in 0..MaxNow :
          /\ store' = dispatch(store, [type |-> "SELECT_DATE", payload |-> date])
          /\ outcome' = [op |-> "selectDate", date |-> date]
    /\ UNCHANGED workspace
    /\ ForecastFrame

\* time passes
Tick ==
    /\ workspace.now < MaxNow
    /\ workspace' = [workspace EXCEPT !.now = @ + 1]
    /\ outcome' = [op |-> "tick"]
    /\ UNCHANGED store
    /\ ForecastFrame

\* the window gets the focus
WindowFocus ==
    /\ store' = windowFocusHandler(store, workspace.now)
    /\ outcome' = [op |-> "focus", currentDate |-> store.currentDate,
                   selectedDate |-> store.selectedDate]
    /\ UNCHANGED workspace
    /\ ForecastFrame

NextForecast == SetTasks \/ UpdateTask \/ SelectDate \/ Tick \/ WindowFocus

SpecForecast == InitForecast /\ [][NextForecast]_vars

\* C29: after any sequence of setTasks and updateTask calls the keys of
\* tasksMap are the ids of the tasks list and tasksMap maps each id to a task
\* of the list; updateTask with an id of the list replaces that entry in
\* place and keeps the length of the list, and with a new id appends exactly
\* one entry.
C29_MapMirrorsList ==
    /\ DOMAIN store.tasksMap = {store.tasks[i].id : i \in DOMAIN store.tasks}
    /\ \A id \in DOMAIN store.tasksMap :
          /\ store.tasksMap[id] \in Range(store.tasks)
          /\ store.tasksMap[id].id = id
    /\ outcome.op = "updateTask" =>
          IF \E i \in DOMAIN outcome.before : outcome.before[i].id = outcome.task.id
          THEN /\ Len(store.tasks) = Len(outcome.before)
               /\ \E i \in DOMAIN outcome.before :
                     /\ outcome.before[i].id = outcome.task.id
                     /\ store.tasks = [outcome.before EXCEPT ![i] = outcome.task]
          ELSE store.tasks = Append(outcome.before, outcome.task)

\* the list held version 1 of task "a" between two other entries and
\* updateTask has put version 2 in its place
C29_Witness ==
    /\ outcome.op = "updateTask"
    /\ Len(outcome.before) = 3
    /\ outcome.before[2] = [id |-> "a", version |-> 1]
    /\ outcome.task = [id |-> "a", version |-> 2]
    /\ store.tasks[2] = outcome.task
    /\ store.tasksMap["a"] = outcome.task

\* a task with a new id has been appended
C29_WitnessAppend ==
    /\ outcome.op = "updateTask"
    /\ Len(outcome.before) = 1
    /\ outcome.before[1].id = "a"
    /\ outcome.task.id = "b"
    /\ Len(store.tasks) = 2

C30_WitnessMovedAway ==
    /\ outcome.op = "focus"
    /\ outcome.currentDate = 0
    /\ outcome.selectedDate = 4
    /\ workspace.now = 2
    /\ store.currentDate = 2
    /\ store.selectedDate = 4

====
